---- MODULE Spec2Model ----
(***************************************************************************)
(* A model of the Wave compiler front-end (src/src/compiler): the lexer    *)
(* (lexer.c), the recursive-descent parser (parser.c) and the extra buffer *)
(* of the AST (ast.c).                                                     *)
(*                                                                         *)
(* A source is a sequence of bytes; an ASCII byte is written as a string   *)
(* of length one, the other bytes by the names below.  lex() is modelled   *)
(* one next_token() call per step, parse() as one step that runs the whole *)
(* of parse_decls().  A run of the C program that does not return is kept  *)
(* in the variable status:                                                 *)
(*   "assert"  a failing assert()            "todo"   todo()               *)
(*   "panic"   panic()                       "hang"   a loop that never    *)
(*   "ub"      undefined behaviour (a read             leaves              *)
(*             outside an array, a null                                    *)
(*             dereference): every outcome                                 *)
(*             is possible from there                                      *)
(***************************************************************************)
EXTENDS Integers, Sequences, FiniteSets, TLC

VARIABLES
    src,        \* the source string handed to parse()
    ndebug,     \* build flag: TRUE when assert() is compiled out
    rtl,        \* build choice: TRUE when call arguments are evaluated right to left
    pc,         \* "lex", "parse", "done"
    status,     \* "ok" or the way the run ended without returning
    pos,        \* lexer->str - lexer->start
    tok_kind,   \* LexedSrc.kind
    tok_start,  \* LexedSrc.start
    ldiags,     \* lexer->diagnostics
    ast,        \* the Ast returned by parse()
    files,      \* vfs.c: the elements of the array files, files[0 .. length)
    capacity,   \* vfs.c: the capacity of the array files, 0 while files is NULL
    added,      \* the caller of vfs.c: the arguments and the result of each add_file
    out         \* the caller of vfs.c: the last call and what it returned

vars == <<src, ndebug, rtl, pc, status, pos, tok_kind, tok_start, ldiags, ast,
          files, capacity, added, out>>

(***************************************************************************)
(* Bytes                                                                   *)
(***************************************************************************)
NUL == "NUL"     \* the terminating '\0'
OOB == "OOB"     \* what a read past the terminator finds: undefined
TAB == "\t"
NL == "\n"
CR == "\r"
QUOTE == "'"
DQUOTE == "\""
BSLASH == "\\"
LEAD2 == "xC3"   \* a UTF-8 lead byte of a 2-byte sequence
LEAD3 == "xE2"   \* a UTF-8 lead byte of a 3-byte sequence
LEAD4 == "xF0"   \* a UTF-8 lead byte of a 4-byte sequence
CONT == "xA9"    \* a UTF-8 continuation byte

Digits == {"0", "1", "2", "3", "4", "5", "6", "7", "8", "9"}
Lower == {"a", "b", "c", "d", "e", "f", "g", "h", "i", "j", "k", "l", "m",
          "n", "o", "p", "q", "r", "s", "t", "u", "v", "w", "x", "y", "z"}
Upper == {"A", "B", "C", "D", "E", "F", "G", "H", "I", "J", "K", "L", "M",
          "N", "O", "P", "Q", "R", "S", "T", "U", "V", "W", "X", "Y", "Z"}
HighBytes == {LEAD2, LEAD3, LEAD4, CONT}

Ch(s, i) == IF i < Len(s) THEN s[i + 1] ELSE IF i = Len(s) THEN NUL ELSE OOB

is_space(c) == c = " " \/ c = TAB
is_utf8(c) == c \in HighBytes
utf8_isalpha(c) == is_utf8(c) \/ c \in Lower \cup Upper
utf8_isalnum(c) == is_utf8(c) \/ c \in Lower \cup Upper \cup Digits
utf8_bytes(c) ==
    CASE c = LEAD4 -> 4
      [] c = LEAD3 -> 3
      [] c = LEAD2 -> 2
      [] c = NUL -> 0
      [] OTHER -> 1

(***************************************************************************)
(* Tokens: the kinds are the names of lexer.h without the TOKEN_ prefix.   *)
(* TOKENS is the x-macro of lexer.h: each kind with its printable string.  *)
(***************************************************************************)
TOKENS ==
    <<<<"EOF", <<"E", "O", "F">>>>,
      <<"BAD", <<"u", "n", "k", "n", "o", "w", "n", " ", "c", "h", "a", "r", "a", "c", "t", "e", "r">>>>,
      <<"COMMENT", <<"c", "o", "m", "m", "e", "n", "t">>>>,
      <<"DOC_COMMENT", <<"d", "o", "c", "s", " ", "c", "o", "m", "m", "e", "n", "t">>>>,
      <<"MULTILINE_COMMENT", <<"m", "u", "l", "t", "i", "l", "i", "n", "e", " ", "c", "o", "m", "m", "e", "n", "t">>>>,
      <<"INT", <<"a", "n", " ", "i", "n", "t", " ", "l", "i", "t", "e", "r", "a", "l">>>>,
      <<"FLOAT", <<"a", " ", "f", "l", "o", "a", "t", " ", "l", "i", "t", "e", "r", "a", "l">>>>,
      <<"CHAR", <<"a", " ", "c", "h", "a", "r", " ", "l", "i", "t", "e", "r", "a", "l">>>>,
      <<"STRING", <<"a", " ", "s", "t", "r", "i", "n", "g", " ", "l", "i", "t", "e", "r", "a", "l">>>>,
      <<"MULTILINE_STRING", <<"a", " ", "m", "u", "l", "t", "i", "l", "i", "n", "e", " ", "s", "t", "r", "i", "n", "g">>>>,
      <<"IDENTIFIER", <<"a", "n", " ", "i", "d", "e", "n", "t", "i", "f", "i", "e", "r">>>>,
      <<"LPAREN", <<"(">>>>,
      <<"RPAREN", <<")">>>>,
      <<"LBRACKET", <<"[">>>>,
      <<"RBRACKET", <<"]">>>>,
      <<"LBRACE", <<"{">>>>,
      <<"RBRACE", <<"}">>>>,
      <<"AT", <<"@">>>>,
      <<"EXCLAMATION", <<"!">>>>,
      <<"TILDE", <<"~">>>>,
      <<"QUESTION", <<"?">>>>,
      <<"STAR", <<"*">>>>,
      <<"SLASH", <<"/">>>>,
      <<"PERCENTAGE", <<"%">>>>,
      <<"AND", <<"&">>>>,
      <<"LT_LT", <<"<", "<">>>>,
      <<"GT_GT", <<">", ">">>>>,
      <<"PLUS", <<"+">>>>,
      <<"MINUS", <<"-">>>>,
      <<"PIPE", <<"|">>>>,
      <<"CARET", <<"^">>>>,
      <<"EQ_EQ", <<"=", "=">>>>,
      <<"EXCLAMATION_EQ", <<"!", "=">>>>,
      <<"LT", <<"<">>>>,
      <<"GT", <<">">>>>,
      <<"LT_EQ", <<"<", "=">>>>,
      <<"GT_EQ", <<">", "=">>>>,
      <<"AND_AND", <<"&", "&">>>>,
      <<"PIPE_PIPE", <<"|", "|">>>>,
      <<"PIPE_GT", <<"|", ">">>>>,
      <<"EQ", <<"=">>>>,
      <<"COLON_EQ", <<":", "=">>>>,
      <<"STAR_EQ", <<"*", "=">>>>,
      <<"SLASH_EQ", <<"/", "=">>>>,
      <<"PERCENTAGE_EQ", <<"%", "=">>>>,
      <<"AND_EQ", <<"&", "=">>>>,
      <<"LT_LT_EQ", <<"<", "<", "=">>>>,
      <<"GT_GT_EQ", <<">", ">", "=">>>>,
      <<"PLUS_EQ", <<"+", "=">>>>,
      <<"MINUS_EQ", <<"-", "=">>>>,
      <<"PIPE_EQ", <<"|", "=">>>>,
      <<"CARET_EQ", <<"^", "=">>>>,
      <<"ARROW", <<"-", ">">>>>,
      <<"FAT_ARROW", <<"=", ">">>>>,
      <<"COMMA", <<",">>>>,
      <<"DOT", <<".">>>>,
      <<"DOT_DOT", <<".", ".">>>>,
      <<"ELLIPSIS", <<".", ".", ".">>>>,
      <<"COLON", <<":">>>>,
      <<"COLON_COLON", <<":", ":">>>>,
      <<"SEMICOLON", <<";">>>>,
      <<"NEWLINE", <<"N", "E", "W", "L", "I", "N", "E">>>>,
      <<"FIRST_KEYWORD", <<>>>>,
      <<"AS", <<"a", "s">>>>,
      <<"ALIGNOF", <<"a", "l", "i", "g", "n", "o", "f">>>>,
      <<"ASM", <<"a", "s", "m">>>>,
      <<"BREAK", <<"b", "r", "e", "a", "k">>>>,
      <<"CONTINUE", <<"c", "o", "n", "t", "i", "n", "u", "e">>>>,
      <<"CONTEXT", <<"c", "o", "n", "t", "e", "x", "t">>>>,
      <<"DEFER", <<"d", "e", "f", "e", "r">>>>,
      <<"DISTINCT", <<"d", "i", "s", "t", "i", "n", "c", "t">>>>,
      <<"ELSE", <<"e", "l", "s", "e">>>>,
      <<"ENUM", <<"e", "n", "u", "m">>>>,
      <<"FOR", <<"f", "o", "r">>>>,
      <<"FOREIGN", <<"f", "o", "r", "e", "i", "g", "n">>>>,
      <<"FALLTHROUGH", <<"f", "a", "l", "l", "t", "h", "r", "o", "u", "g", "h">>>>,
      <<"IF", <<"i", "f">>>>,
      <<"IN", <<"i", "n">>>>,
      <<"IMPORT", <<"i", "m", "p", "o", "r", "t">>>>,
      <<"MUT", <<"m", "u", "t">>>>,
      <<"MATCH", <<"m", "a", "t", "c", "h">>>>,
      <<"MAP", <<"m", "a", "p">>>>,
      <<"NEW", <<"n", "e", "w">>>>,
      <<"OWN", <<"o", "w", "n">>>>,
      <<"OR", <<"o", "r">>>>,
      <<"OFFSETOF", <<"o", "f", "f", "s", "e", "t", "o", "f">>>>,
      <<"RETURN", <<"r", "e", "t", "u", "r", "n">>>>,
      <<"STRUCT", <<"s", "t", "r", "u", "c", "t">>>>,
      <<"SIZEOF", <<"s", "i", "z", "e", "o", "f">>>>,
      <<"TYPEOF", <<"t", "y", "p", "e", "o", "f">>>>,
      <<"USING", <<"u", "s", "i", "n", "g">>>>,
      <<"UNION", <<"u", "n", "i", "o", "n">>>>,
      <<"UNDEF", <<"u", "n", "d", "e", "f">>>>,
      <<"WHERE", <<"w", "h", "e", "r", "e">>>>,
      <<"WHEN", <<"w", "h", "e", "n">>>>>>

TokenKinds == {TOKENS[i][1] : i \in 1..Len(TOKENS)}

TokenSpelling ==
    [k \in TokenKinds |-> TOKENS[CHOOSE i \in 1..Len(TOKENS) : TOKENS[i][1] = k][2]]



\* keywords[]: the KEYWORDS x-macro in its order; keywords[0] is FIRST_KEYWORD
KeywordOrder ==
    <<"FIRST_KEYWORD", "AS", "ALIGNOF", "ASM", "BREAK", "CONTINUE", "CONTEXT", "DEFER",
      "DISTINCT", "ELSE", "ENUM", "FOR", "FOREIGN", "FALLTHROUGH", "IF", "IN", "IMPORT",
      "MUT", "MATCH", "MAP", "NEW", "OWN", "OR", "OFFSETOF", "RETURN", "STRUCT", "SIZEOF",
      "TYPEOF", "USING", "UNION", "UNDEF", "WHERE", "WHEN">>

max_keyword_length == 11

KeywordIndex ==
    [k \in {KeywordOrder[i] : i \in 1..Len(KeywordOrder)} |->
        CHOOSE i \in 1..Len(KeywordOrder) : KeywordOrder[i] = k]

\* keyword_info[]: the bucket of a first byte, as the first and last kind of the bucket
KeywordBucket ==
    [a |-> <<"AS", "ASM">>, b |-> <<"BREAK", "BREAK">>, c |-> <<"CONTINUE", "CONTEXT">>,
     d |-> <<"DEFER", "DISTINCT">>, e |-> <<"ELSE", "ENUM">>, f |-> <<"FOR", "FALLTHROUGH">>,
     i |-> <<"IF", "IMPORT">>, m |-> <<"MUT", "MAP">>, n |-> <<"NEW", "NEW">>,
     o |-> <<"OWN", "OFFSETOF">>, r |-> <<"RETURN", "RETURN">>, s |-> <<"STRUCT", "SIZEOF">>,
     t |-> <<"TYPEOF", "TYPEOF">>, u |-> <<"USING", "UNDEF">>, w |-> <<"WHERE", "WHEN">>]

\* The array has 'w' + 1 entries: the bytes after 'w' index past its end.
KeywordInfoOutOfBounds(c) == c \in {"x", "y", "z"}


(***************************************************************************)
(* The lexer (lexer.c).  A scan position is an offset into the source; a   *)
(* sub-lexer returns the record of what it leaves in the Lexer: the token  *)
(* (kind, start), the new position, the diagnostics it pushed and st.      *)
(***************************************************************************)
Diag(start, end, message) == [start |-> start, end |-> end, message |-> message]

Lexed(kind, start, p, diags, st) ==
    [kind |-> kind, start |-> start, pos |-> p, diags |-> diags, st |-> st]

digit_decoder(c) ==
    CASE c = "1" -> 1 [] c = "2" -> 2 [] c = "3" -> 3 [] c = "4" -> 4 [] c = "5" -> 5
      [] c = "6" -> 6 [] c = "7" -> 7 [] c = "8" -> 8 [] c = "9" -> 9
      [] c \in {"a", "A"} -> 10 [] c \in {"b", "B"} -> 11 [] c \in {"c", "C"} -> 12
      [] c \in {"d", "D"} -> 13 [] c \in {"e", "E"} -> 14 [] c \in {"f", "F"} -> 15
      [] OTHER -> 0

is_escapeable(c) == c \in {BSLASH, QUOTE, DQUOTE, "0", "t", "v", "r", "n", "b", "a"}

\* lex_base: <<base, position after the prefix>>
lex_base(s, str) ==
    IF Ch(s, str) # "0" THEN <<10, str>>
    ELSE IF Ch(s, str + 1) \in {"b", "B"} THEN <<2, str + 2>>
    ELSE IF Ch(s, str + 1) \in {"o", "O"} THEN <<8, str + 2>>
    ELSE IF Ch(s, str + 1) \in {"x", "X"} THEN <<16, str + 2>>
    ELSE <<10, str>>

\* skip_digits: the tables have 128 entries, a byte >= 0x80 indexes outside them
RECURSIVE skip_digits_from(_, _, _, _, _)
skip_digits_from(s, str, base, count, diags) ==
    LET c == Ch(s, str)
        digit == digit_decoder(c)
    IN  IF c \in HighBytes THEN [pos |-> str, count |-> count, diags |-> diags, st |-> "ub"]
        ELSE IF c = "_" THEN skip_digits_from(s, str + 1, base, count, diags)
        ELSE IF digit = 0 /\ c # "0" THEN [pos |-> str, count |-> count, diags |-> diags, st |-> "ok"]
        ELSE IF digit >= base /\ c \in {"e", "E"}
             THEN [pos |-> str, count |-> count, diags |-> diags, st |-> "ok"]
        ELSE skip_digits_from(s, str + 1, base, count + 1,
                 IF digit >= base
                 THEN Append(diags, Diag(str, str, "invalid digit in numeric literal"))
                 ELSE diags)

skip_digits(s, str, base) == skip_digits_from(s, str, base, 0, <<>>)

\* the exponent of lex_number: the byte after e/E/p/P, an optional sign, decimal digits
lex_exponent(s, str) ==
    LET q == str + 1
        op == IF Ch(s, q) \in {"+", "-"} THEN 1 ELSE 0
    IN  skip_digits(s, q + op, 10)

\* lexer->token = token of lex_number, after the skip_digits of an exponent
number_token(kind, start, diags, d) == Lexed(kind, start, d.pos, diags \o d.diags, d.st)

\* the exponent of lex_number, with lexer->str at str
number_exponent(s, start, base, kind, str, diags) ==
    LET c == Ch(s, str)
    IN  IF c \in {"e", "E"} THEN number_token("FLOAT", start, diags, lex_exponent(s, str))
        ELSE IF c \in {"p", "P"} THEN
            number_token("FLOAT", start,
                         IF base # 16 THEN Append(diags, Diag(start, str, "invalid suffix"))
                         ELSE diags,
                         lex_exponent(s, str))
        ELSE Lexed(kind, start, str, diags, "ok")

\* the checks of lex_number after the digits of the fraction, d2; d1 is the
\* skip_digits before the '.'
number_fraction(s, start, base, d1, d2) ==
    LET str == d2.pos
        e1 == IF base # 10 /\ base # 16
              THEN <<Diag(start, str, "invalid base in floating point literal")>> ELSE <<>>
        e2 == IF base = 16 /\ d1.count # 1
              THEN <<Diag(start, str, "invalid hexadecimal floating point literal")>> ELSE <<>>
        \* char const *p = lexer->str + 1: one byte further than the scan position
        e3 == IF base = 16 /\ Ch(s, str + 1) # "p"
              THEN <<Diag(start, str, "invalid hexadecimal point literal")>> ELSE <<>>
        diags == d1.diags \o d2.diags \o e1 \o e2 \o e3
    IN  IF d2.st # "ok" THEN Lexed("FLOAT", start, str, diags, d2.st)
        ELSE IF base = 16 /\ Ch(s, str + 1) = OOB THEN Lexed("FLOAT", start, str, diags, "ub")
        ELSE number_exponent(s, start, base, "FLOAT", str, diags)

\* lex_number after int count = skip_digits(lexer, base), d1
number_digits(s, start, base, d1) ==
    IF d1.st # "ok" THEN Lexed("INT", start, d1.pos, d1.diags, d1.st)
    ELSE IF Ch(s, d1.pos) = "."
        THEN number_fraction(s, start, base, d1, skip_digits(s, d1.pos + 1, base))
    ELSE number_exponent(s, start, base, "INT", d1.pos, d1.diags)

\* lex_number after int base = lex_base(lexer), b
number_base(s, start, b) == number_digits(s, start, b[1], skip_digits(s, b[2], b[1]))

lex_number(s, start) == number_base(s, start, lex_base(s, start))

\* handle_escape reads the bytes after lexer->str, which its assert takes to be
\* the backslash; lstr is lexer->str.  The result is <<str, diags, st>>.
handle_escape(s, lstr, nd) ==
    LET str == lstr + 1
        c == Ch(s, str)
        h1 == Ch(s, str + 1)
        h2 == Ch(s, str + 2)
    IN  IF Ch(s, lstr) # BSLASH /\ ~nd THEN <<lstr, <<>>, "assert">>
        ELSE IF c = "x" THEN
            IF h1 \in HighBytes THEN <<str + 1, <<>>, "ub">>
            ELSE IF digit_decoder(h1) = 0 /\ h1 # "0"
                 THEN <<str + 1, <<Diag(lstr, str + 1, "invalid escape")>>, "ok">>
            ELSE IF h2 \in HighBytes THEN <<str + 2, <<>>, "ub">>
            ELSE IF digit_decoder(h2) # 0 \/ h2 = "0" THEN <<str + 3, <<>>, "ok">>
            ELSE <<str + 2, <<>>, "ok">>
        ELSE IF c \in HighBytes THEN <<str, <<>>, "ub">>
        ELSE IF is_escapeable(c) THEN <<str + 1, <<>>, "ok">>
        ELSE <<str, <<Diag(lstr, str, "invalid escape")>>, "ok">>

RECURSIVE skip_line(_, _)
skip_line(s, str) ==
    IF Ch(s, str) # NUL /\ Ch(s, str) # NL THEN skip_line(s, str + 1) ELSE str

\* lex_char after the character: esc is <<str, diags, st>> as handle_escape returns it
char_close(s, lstr, esc) ==
    IF esc[3] # "ok" THEN Lexed("CHAR", lstr, esc[1], esc[2], esc[3])
    ELSE IF Ch(s, esc[1]) = OOB THEN Lexed("CHAR", lstr, esc[1], esc[2], "ub")
    ELSE IF Ch(s, esc[1]) = QUOTE THEN Lexed("CHAR", lstr, esc[1] + 1, esc[2], "ok")
    ELSE Lexed("CHAR", lstr, skip_line(s, esc[1]),
               Append(esc[2], Diag(esc[1], esc[1], "unterminated character literal")), "ok")

lex_char(s, lstr, nd) ==
    IF Ch(s, lstr + 1) = BSLASH THEN char_close(s, lstr, handle_escape(s, lstr, nd))
    ELSE char_close(s, lstr, <<lstr + 2, <<>>, "ok">>)

\* The scanning loops of lex_string.  handle_escape does not depend on the place
\* of the backslash, only on lexer->str: when it returns a position at or before
\* the backslash the loop comes back to the same backslash for ever.
RECURSIVE string_body(_, _, _, _, _, _)

\* case '\\' of the loops: str = handle_escape(lexer), esc
string_escape(s, lstr, str, nd, multi, diags, esc) ==
    IF esc[3] # "ok" THEN <<str, diags \o esc[2], esc[3]>>
    ELSE IF esc[1] <= str THEN <<str, diags \o esc[2], "hang">>
    ELSE string_body(s, lstr, esc[1], nd, multi, diags \o esc[2])

string_body(s, lstr, str, nd, multi, diags) ==
    LET c == Ch(s, str)
        closes == IF multi
                  THEN c = DQUOTE /\ Ch(s, str + 1) = DQUOTE /\ Ch(s, str + 2) = DQUOTE
                  ELSE c = DQUOTE \/ c = NL
    IN  IF c = NUL THEN <<str, diags, "ok">>
        ELSE IF closes THEN <<str + (IF multi THEN 3 ELSE 1), diags, "ok">>
        ELSE IF c = BSLASH
            THEN string_escape(s, lstr, str, nd, multi, diags, handle_escape(s, lstr, nd))
        ELSE string_body(s, lstr, str + 1, nd, multi, diags)

\* lex_string after its loop: body is <<str, diags, st>>
string_close(s, lstr, multi, body) ==
    LET kind == IF multi THEN "MULTILINE_STRING" ELSE "STRING"
        quotes == body[1] - 1
        message == IF multi THEN "unterminated multiline string" ELSE "unterminated string"
    IN  IF body[3] # "ok" THEN Lexed(kind, lstr, body[1], body[2], body[3])
        ELSE IF Ch(s, quotes) # DQUOTE
             THEN Lexed(kind, lstr, body[1], Append(body[2], Diag(lstr, quotes, message)), "ok")
        ELSE Lexed(kind, lstr, body[1], body[2], "ok")

lex_string(s, lstr, nd) ==
    IF Ch(s, lstr + 1) = DQUOTE /\ Ch(s, lstr + 2) = DQUOTE
    THEN string_close(s, lstr, TRUE, string_body(s, lstr, lstr + 3, nd, TRUE, <<>>))
    ELSE string_close(s, lstr, FALSE, string_body(s, lstr, lstr + 1, nd, FALSE, <<>>))

\* lex_identifier; the default case of next_token has the same loop without '_'
RECURSIVE identifier_end(_, _, _)
identifier_end(s, str, underscore) ==
    LET c == Ch(s, str)
    IN  IF c # OOB /\ (utf8_isalnum(c) \/ (underscore /\ c = "_"))
        THEN identifier_end(s, str + utf8_bytes(c), underscore)
        ELSE str

lex_identifier(s, lstr) == identifier_end(s, lstr, TRUE)

\* the keyword lookup of next_token for the lexeme s[start, end)
keyword_lookup(s, start, end) ==
    LET c == Ch(s, start)
        lexeme == SubSeq(s, start + 1, end)
        bucket == KeywordBucket[c]
        hits == {i \in KeywordIndex[bucket[1]]..KeywordIndex[bucket[2]] :
                    TokenSpelling[KeywordOrder[i]] = lexeme}
    IN  IF end - start <= max_keyword_length /\ c \in DOMAIN KeywordBucket /\ hits # {}
        THEN KeywordOrder[CHOOSE i \in hits : \A j \in hits : i <= j]
        ELSE "IDENTIFIER"


\* The operator macros of next_token
OP(str, kind) == Lexed(kind, str, str + 1, <<>>, "ok")

OP_EQ(s, str, kind, kind_eq) ==
    IF Ch(s, str + 1) = "=" THEN Lexed(kind_eq, str, str + 2, <<>>, "ok")
    ELSE Lexed(kind, str, str + 1, <<>>, "ok")

OP2(s, str, kind1, ch2, kind2) ==
    IF Ch(s, str + 1) = ch2 THEN Lexed(kind2, str, str + 2, <<>>, "ok")
    ELSE Lexed(kind1, str, str + 1, <<>>, "ok")

OP2_EQ(s, str, kind1, kind1_eq, ch2, kind2) ==
    IF Ch(s, str + 1) = ch2 THEN Lexed(kind2, str, str + 2, <<>>, "ok")
    ELSE IF Ch(s, str + 1) = "=" THEN Lexed(kind1_eq, str, str + 2, <<>>, "ok")
    ELSE Lexed(kind1, str, str + 1, <<>>, "ok")

OP3(s, str, kind1, ch2, kind2, ch3, kind3) ==
    IF Ch(s, str + 1) = ch2 THEN Lexed(kind2, str, str + 2, <<>>, "ok")
    ELSE IF Ch(s, str + 1) = ch3 THEN Lexed(kind3, str, str + 2, <<>>, "ok")
    ELSE Lexed(kind1, str, str + 1, <<>>, "ok")

OP3_EQ(s, str, kind1, ch2, kind2, kind2_eq, ch3, kind3) ==
    IF Ch(s, str + 1) = ch2
    THEN IF Ch(s, str + 2) = "=" THEN Lexed(kind2_eq, str, str + 3, <<>>, "ok")
         ELSE Lexed(kind2, str, str + 2, <<>>, "ok")
    ELSE IF Ch(s, str + 1) = ch3 THEN Lexed(kind3, str, str + 2, <<>>, "ok")
    ELSE Lexed(kind1, str, str + 1, <<>>, "ok")

lex_colon(s, str) == OP(str, "COLON")

lex_pipe(s, str) ==
    IF Ch(s, str + 1) = "|" THEN Lexed("PIPE_PIPE", str, str + 2, <<>>, "ok")
    ELSE IF Ch(s, str + 1) = "=" THEN Lexed("PIPE_EQ", str, str + 2, <<>>, "ok")
    ELSE IF Ch(s, str + 1) = ">" THEN Lexed("PIPE_GT", str, str + 2, <<>>, "ok")
    ELSE Lexed("PIPE", str, str + 1, <<>>, "ok")

lex_dot(s, str) ==
    IF Ch(s, str + 1) # "." THEN Lexed("DOT", str, str + 1, <<>>, "ok")
    ELSE IF Ch(s, str + 2) # "." THEN Lexed("DOT_DOT", str, str + 2, <<>>, "ok")
    ELSE Lexed("ELLIPSIS", str, str + 3, <<>>, "ok")

\* while (*str != '\r' && *str != '\n') str++: the loop has no test for the
\* terminator, so it reads past it when the comment is the end of the source
RECURSIVE line_comment_end(_, _)
line_comment_end(s, str) ==
    IF Ch(s, str) \in {CR, NL, OOB} THEN str ELSE line_comment_end(s, str + 1)

RECURSIVE block_comment_end(_, _, _)
block_comment_end(s, str, depth) ==
    IF Ch(s, str) = NUL \/ depth <= 0 THEN str
    ELSE IF Ch(s, str) = "/" /\ Ch(s, str + 1) = "*" THEN block_comment_end(s, str + 2, depth + 1)
    ELSE IF Ch(s, str) = "*" /\ Ch(s, str + 1) = "/" THEN block_comment_end(s, str + 2, depth - 1)
    ELSE block_comment_end(s, str + 1, depth)

lex_slash(s, str) ==
    LET c == Ch(s, str + 1)
        doc == Ch(s, str + 2) = "/"
        stop == line_comment_end(s, str + (IF doc THEN 3 ELSE 2))
        kind == IF doc THEN "DOC_COMMENT" ELSE "COMMENT"
    IN  IF c = "/" THEN
            IF Ch(s, stop) = OOB THEN Lexed(kind, str, stop, <<>>, "ub")
            ELSE Lexed(kind, str, stop + (IF Ch(s, stop) = CR THEN 1 ELSE 0), <<>>, "ok")
        ELSE IF c = "*" THEN Lexed("MULTILINE_COMMENT", str, block_comment_end(s, str + 2, 1), <<>>, "ok")
        ELSE IF c = "=" THEN Lexed("SLASH_EQ", str, str + 2, <<>>, "ok")
        ELSE Lexed("SLASH", str, str + 1, <<>>, "ok")

lex_word(s, str) ==
    LET end == lex_identifier(s, str)
    IN  IF end > Len(s) THEN Lexed("IDENTIFIER", str, end, <<>>, "ub")
        ELSE IF end - str <= max_keyword_length /\ KeywordInfoOutOfBounds(Ch(s, str))
             THEN Lexed("IDENTIFIER", str, end, <<>>, "ub")
        ELSE Lexed(keyword_lookup(s, str, end), str, end, <<>>, "ok")

\* case '\r': str++; falls through to case '\n'
lex_newline(s, str) ==
    LET nl == IF Ch(s, str) = CR THEN str + 1 ELSE str
    IN  Lexed("NEWLINE", nl, nl + 1, <<>>, "ok")

lex_default(s, str) ==
    LET end == identifier_end(s, str, FALSE)
    IN  IF utf8_isalpha(Ch(s, str))
        THEN Lexed("IDENTIFIER", str, end, <<>>, IF end > Len(s) THEN "ub" ELSE "ok")
        ELSE Lexed("BAD", str, str + 1, <<Diag(str, str, "unknown character")>>, "ok")

RECURSIVE skip_spaces(_, _)
skip_spaces(s, str) == IF is_space(Ch(s, str)) THEN skip_spaces(s, str + 1) ELSE str

\* next_token: the token it leaves in lexer->token, the new lexer->str, the
\* diagnostics pushed; it returns kind # "EOF"
next_token(s, lstr, nd) ==
    LET str == skip_spaces(s, lstr)
        c == Ch(s, str)
    IN  CASE c = OOB -> Lexed("EOF", str, str, <<>>, "ub")
          [] c = "+" -> OP_EQ(s, str, "PLUS", "PLUS_EQ")
          [] c = "-" -> OP2_EQ(s, str, "MINUS", "MINUS_EQ", ">", "ARROW")
          [] c = "*" -> OP_EQ(s, str, "STAR", "STAR_EQ")
          [] c = "%" -> OP_EQ(s, str, "PERCENTAGE", "PERCENTAGE_EQ")
          [] c = "&" -> OP2_EQ(s, str, "AND", "AND_EQ", "&", "AND_AND")
          [] c = "^" -> OP_EQ(s, str, "CARET", "CARET_EQ")
          [] c = "<" -> OP3_EQ(s, str, "LT", "<", "LT_LT", "LT_LT_EQ", "=", "LT_EQ")
          [] c = ">" -> OP3_EQ(s, str, "GT", ">", "GT_GT", "GT_GT_EQ", "=", "GT_EQ")
          [] c = "=" -> OP3(s, str, "EQ", "=", "EQ_EQ", ">", "FAT_ARROW")
          [] c = "!" -> OP2(s, str, "EXCLAMATION", "=", "EXCLAMATION_EQ")
          [] c = "?" -> OP(str, "QUESTION")
          [] c = "," -> OP(str, "COMMA")
          [] c = ";" -> OP(str, "SEMICOLON")
          [] c = ":" -> lex_colon(s, str)
          [] c = "@" -> OP(str, "AT")
          [] c = "~" -> OP(str, "TILDE")
          [] c = "(" -> OP(str, "LPAREN")
          [] c = ")" -> OP(str, "RPAREN")
          [] c = "[" -> OP(str, "LBRACKET")
          [] c = "]" -> OP(str, "RBRACKET")
          [] c = "{" -> OP(str, "LBRACE")
          [] c = "}" -> OP(str, "RBRACE")
          [] c = "|" -> lex_pipe(s, str)
          [] c = "." -> lex_dot(s, str)
          [] c = "/" -> lex_slash(s, str)
          [] c \in Digits -> lex_number(s, str)
          [] c = QUOTE -> lex_char(s, str, nd)
          [] c = DQUOTE -> lex_string(s, str, nd)
          [] c \in Lower \cup Upper \cup {"_"} -> lex_word(s, str)
          [] c \in {CR, NL} -> lex_newline(s, str)
          [] c = NUL -> Lexed("EOF", str, str, <<>>, "ok")
          [] OTHER -> lex_default(s, str)


\* token_length for the kinds it reads from its table: sizeof of the printable string
token_table_length(kind) == Len(TokenSpelling[kind]) + 1

\* the kinds token_length measures by lexing again from token.start
RelexedKinds == {"INT", "FLOAT", "CHAR", "STRING", "MULTILINE_STRING", "IDENTIFIER"}

\* token_length of the token of this kind at s + start: the literals and the
\* identifiers are lexed again from token.start, the other kinds are looked up
token_length(s, kind, start, nd) ==
    IF kind \in {"INT", "FLOAT"} THEN lex_number(s, start).pos - start
    ELSE IF kind = "CHAR" THEN lex_char(s, start, nd).pos - start
    ELSE IF kind \in {"STRING", "MULTILINE_STRING"} THEN lex_string(s, start, nd).pos - start
    ELSE IF kind = "IDENTIFIER" THEN lex_identifier(s, start) - start
    ELSE token_table_length(kind)

(***************************************************************************)
(* The parser (parser.c).  A parser state p is the struct Parser, with     *)
(* p.st as above and p.ret the value the last function returned.  Indices  *)
(* are the C indices (from 0); the sequences of the model hold element i   *)
(* at i + 1.  A node is kind, token and the two 32-bit words of its Data.  *)
(* Once p.st is not "ok" nothing changes p any more.                       *)
(***************************************************************************)
invalid == 0

PREC_NONE == 0
PREC_PIPE == 1
PREC_OR == 2
PREC_LOGICAL_OR == 3
PREC_LOGICAL_AND == 4
PREC_COMPARISON == 5
PREC_TERM == 6
PREC_FACTOR == 7
PREC_AS == 8

Node(kind, token, a, b) == [kind |-> kind, token |-> token, a |-> a, b |-> b]

Ok(p) == p.st = "ok"
Fail(p, why) == IF Ok(p) THEN [p EXCEPT !.st = why] ELSE p
Ret(p, v) == IF Ok(p) THEN [p EXCEPT !.ret = v] ELSE p

num_nodes(p) == Len(p.nodes)
node_kind(p, i) == p.nodes[i + 1].kind

index(p) == p.ti
peek(p, n) == IF p.ti + n < Len(p.tk) THEN p.tk[p.ti + n + 1] ELSE OOB
current(p) == peek(p, 0)
is_token(p, kind) == current(p) = kind

\* advance(); a cursor past the EOF token makes the token read that follows
\* a read outside token_kind[]
advance(p) ==
    IF ~Ok(p) THEN p
    ELSE IF p.ti + 1 >= Len(p.tk) THEN [p EXCEPT !.ti = p.ti + 1, !.st = "ub"]
    ELSE [p EXCEPT !.ti = p.ti + 1]

add_node(p, kind, token, a, b) ==
    IF ~Ok(p) THEN p
    ELSE [p EXCEPT !.nodes = Append(@, Node(kind, token, a, b)), !.ret = Len(p.nodes)]

reserve_node(p) == add_node(p, "INVALID", 0, 0, 0)

set_node(p, i, kind, token, a, b) ==
    IF ~Ok(p) THEN p
    ELSE [p EXCEPT !.nodes[i + 1] = Node(kind, token, a, b)]

pop_node(p, i) ==
    IF ~Ok(p) THEN p
    ELSE IF i # Len(p.nodes) - 1 THEN Fail(p, "panic")
    ELSE [p EXCEPT !.nodes = SubSeq(@, 1, Len(@) - 1)]

add_scratch(p, node) ==
    IF ~Ok(p) THEN p
    ELSE [p EXCEPT !.scratch = Append(@, node), !.scratch_top = @ + 1]

\* push_scratch: scratch[top .. scratch_top) is read by index and appended to the
\* nodes in that order, the array is popped once for each, then scratch_top = top
push_scratch(p, top) ==
    IF ~Ok(p) THEN p
    ELSE LET n == IF p.scratch_top > top THEN p.scratch_top - top ELSE 0
         IN  [p EXCEPT !.nodes = @ \o [i \in 1..n |-> p.scratch[top + i]],
                       !.scratch = SubSeq(@, 1, Len(@) - n),
                       !.scratch_top = top]

\* __add_extra: the payload is copied at array_length(extra), and the length of
\* the array is left as it was.  The buffer is kept as 32-bit words.
add_extra(p, words) ==
    IF ~Ok(p) THEN p
    ELSE LET off == p.extra_len
             size == IF Len(p.extra) > off + Len(words) THEN Len(p.extra) ELSE off + Len(words)
         IN  [p EXCEPT !.extra = [i \in 1..size |->
                                    IF i > off /\ i <= off + Len(words) THEN words[i - off]
                                    ELSE p.extra[i]],
                       !.ret = 4 * off]

get_extra(extra, offset, k) == extra[(offset \div 4) + k]

error_span(p, start, end, message) ==
    IF ~Ok(p) THEN p
    ELSE [p EXCEPT !.diags = Append(@, Diag(start, end, message))]

\* token_length(token) of the token at index i, with token.start = parser->str + start;
\* parse() leaves parser->str NULL, so lexing the token again dereferences a null pointer
error_at(p, i, message) ==
    IF ~Ok(p) THEN p
    ELSE IF i >= Len(p.tk) THEN Fail(p, "ub")
    ELSE IF p.tk[i + 1] \in RelexedKinds THEN Fail(p, "ub")
    ELSE error_span(p, p.ts[i + 1], p.ts[i + 1] + token_table_length(p.tk[i + 1]), message)

error_at_current(p, message) == error_at(p, index(p), message)

\* span(first, last): <<start, end>>
span(p, first, last) ==
    <<p.ts[first + 1], p.ts[last + 1] + token_table_length(p.tk[last + 1]) - 1>>

match(p, kind) ==
    IF ~Ok(p) THEN p
    ELSE IF is_token(p, kind) THEN Ret(advance(p), TRUE)
    ELSE Ret(p, FALSE)

expect(p, kind) ==
    IF ~Ok(p) THEN p
    ELSE IF is_token(p, kind) THEN Ret(advance(p), TRUE)
    ELSE Ret(error_at_current(p, "expected " \o kind), FALSE)

RECURSIVE skip_newlines(_)
skip_newlines(p) ==
    IF Ok(p) /\ is_token(p, "NEWLINE") THEN skip_newlines(advance(p)) ELSE p


Matched(p) == Ok(p) /\ p.ret = TRUE

RECURSIVE parse_type(_), parse_expr_prec(_, _), parse_lhs(_), parse_primary(_),
          parse_struct(_), struct_fields(_, _), parse_enum(_), enum_variants(_, _),
          parse_enum_variant(_), variant_fields(_, _), parse_function(_),
          parse_function_params(_), function_params(_, _), binary_loop(_, _, _),
          parse_decl(_), parse_decls(_), decls_loop(_), next_decl(_), name_list(_)

(***************************************************************************)
(* A parsing function is written as a chain of operators, one for each     *)
(* point of the C function where the parser has just come back from a      *)
(* call: its last parameter p is the parser at that point, the parameters  *)
(* before it are the locals of the C function that are live there.         *)
(***************************************************************************)
parse_expr(p) == parse_expr_prec(p, PREC_OR)

\* add_node(parser, kind, index() - n, (Data) { parse_type(parser) }): the order in
\* which the two arguments are evaluated is not specified; p is the parser before
\* parse_type() and inner the parser after it
ref_node(p, kind, n, inner) ==
    add_node(inner, kind, IF p.rtl THEN index(inner) - n ELSE index(p) - n, inner.ret, 0)

ref_type(p, kind, n) == ref_node(p, kind, n, parse_type(p))

\* return add_node(parser, NODE_ARRAY_TYPE, lbracket, { expr, parse_type(parser) })
array_node(lbracket, expr, p) == add_node(p, "ARRAY_TYPE", lbracket, expr, p.ret)

\* Index expr = parse_expr(parser); expect(TOKEN_RBRACKET)
array_type(lbracket, p) == array_node(lbracket, p.ret, parse_type(expect(p, "RBRACKET")))

parse_type(p) ==
    IF ~Ok(p) THEN p
    ELSE IF is_token(p, "AND") THEN
        LET p1 == advance(p)
        IN  IF is_token(p1, "MUT") THEN ref_type(advance(p1), "REF_MUT_TYPE", 2)
            ELSE IF is_token(p1, "OWN") THEN ref_type(advance(p1), "REF_OWN_TYPE", 2)
            ELSE ref_type(p1, "REF_TYPE", 1)
    ELSE IF is_token(p, "LBRACKET") THEN array_type(index(p), parse_expr(advance(p)))
    ELSE parse_expr(p)

\* parse_stmt returns (Node) { 0 } and consumes nothing
parse_stmt(p) == Ret(p, Node("ROOT", 0, 0, 0))

\* the while loop of parse_block; <<p, count>>
RECURSIVE block_stmts(_, _)

\* add_scratch(parser, stmt); count++, and the test of the loop
block_stmt(p0, count, p) ==
    IF Ok(p) /\ index(p) = index(p0) THEN <<Fail(p, "hang"), count + 1>>
    ELSE block_stmts(p, count + 1)

\* Node stmt = parse_stmt(parser)
block_scratch(p0, count, p) == block_stmt(p0, count, add_scratch(p, p.ret))

block_stmts(p, count) ==
    IF ~Ok(p) \/ is_token(p, "EOF") \/ is_token(p, "RBRACE") THEN <<p, count>>
    ELSE block_scratch(p, count, parse_stmt(skip_newlines(p)))

\* Index end = array_length(parser->nodes.kind) - 1; set_node(..., range)
block_range(token, result, start, p) ==
    Ret(set_node(p, result, "BLOCK", token, start, num_nodes(p) - 1), result)

\* expect(TOKEN_RBRACE, NULL), then the empty block or push_scratch(scratch_top)
block_close(token, result, scratch_top, count, p) ==
    IF count = 0 THEN Ret(set_node(p, result, "BLOCK", token, 0, 0), result)
    ELSE block_range(token, result, num_nodes(p), push_scratch(p, scratch_top))

\* the end of the while loop, stmts = <<p, count>>
block_end(token, result, scratch_top, stmts) ==
    block_close(token, result, scratch_top, stmts[2], expect(stmts[1], "RBRACE"))

\* Index result = reserve_node(parser); Index scratch_top = parser->scratch_top
block_body(token, p) == block_end(token, p.ret, p.scratch_top, block_stmts(skip_newlines(p), 0))

parse_block(p) ==
    IF ~Ok(p) THEN p
    ELSE IF ~is_token(p, "LBRACE") THEN Ret(p, invalid)
    ELSE block_body(index(p), reserve_node(advance(p)))

\* aggregate_kind with the limit of the _TWO kinds off by one
aggregate_kind_below_two(count, two, many) == IF count < 2 THEN two ELSE many

\* the kind and the data of an aggregate with count children in [start, end]
aggregate_kind(count, two, many) == IF count <= 2 THEN two ELSE many
aggregate_data(count, start, end) == IF count = 0 THEN <<0, 0>> ELSE <<start, end>>

\* struct_again with a field required after every comma
struct_again_field_after_comma(p0, count, p) ==
    IF Ok(p) /\ is_token(p, "RBRACE")
    THEN <<error_at_current(p, "expected IDENTIFIER"), count + 1>>
    ELSE struct_fields(p, count + 1)

\* the second skip_newlines of an iteration of the loop of parse_struct, and its test
struct_again(p0, count, p) ==
    IF Ok(p) /\ index(p) = index(p0) THEN <<Fail(p, "hang"), count + 1>>
    ELSE struct_fields(p, count + 1)

\* count++; skip_newlines(parser); if (is_token(RBRACE) || is_token(EOF)) break
struct_next(p0, count, p) ==
    IF ~Ok(p) \/ is_token(p, "RBRACE") \/ is_token(p, "EOF") THEN <<p, count + 1>>
    ELSE struct_again(p0, count, skip_newlines(expect(p, "COMMA")))

\* Node field = { NODE_FIELD, name, { type, expr } }; add_scratch(parser, field);
\* p.ret is expr
struct_field(p0, count, name, type, p) ==
    struct_next(p0, count, skip_newlines(add_scratch(p, Node("FIELD", name, type, p.ret))))

\* type = parse_type(parser); if (match(TOKEN_EQ)) expr = parse_expr(parser)
struct_typed(p0, count, name, p) ==
    IF Ok(p) /\ is_token(p, "EQ")
    THEN struct_field(p0, count, name, p.ret, parse_expr(advance(p)))
    ELSE struct_field(p0, count, name, p.ret, Ret(p, invalid))

\* Index name = add_node(parser, NODE_IDENTIFIER, name_token, (Data) { 0 })
struct_name(p0, count, p) ==
    IF Ok(p) /\ is_token(p, "COLON") THEN struct_typed(p0, count, p.ret, parse_type(advance(p)))
    ELSE IF Ok(p) /\ is_token(p, "COLON_EQ")
        THEN struct_field(p0, count, p.ret, invalid, parse_expr(advance(p)))
    ELSE struct_field(p0, count, p.ret, invalid,
                      Ret(error_at_current(p, "expected ':' or ':='"), invalid))

\* the while loop of parse_struct; <<p, count>>
struct_fields(p, count) ==
    IF ~Ok(p) \/ is_token(p, "EOF") \/ is_token(p, "RBRACE") THEN <<p, count>>
    ELSE struct_name(p, count, add_node(expect(p, "IDENTIFIER"), "IDENTIFIER", index(p), 0, 0))

\* Index end = array_length(parser->nodes.kind) - 1, and the three set_node
struct_node(token, result, count, start, p) ==
    LET data == aggregate_data(count, start, num_nodes(p) - 1)
    IN  Ret(set_node(p, result, aggregate_kind(count, "STRUCT_TWO", "STRUCT"),
                     token, data[1], data[2]), result)

\* expect(TOKEN_RBRACE); Index start = array_length(...); push_scratch(scratch_top)
struct_close(token, result, scratch_top, count, p) ==
    struct_node(token, result, count, num_nodes(p), push_scratch(p, scratch_top))

\* the end of the while loop, fields = <<p, count>>
struct_end(token, result, scratch_top, fields) ==
    struct_close(token, result, scratch_top, fields[2], expect(fields[1], "RBRACE"))

\* Index result = reserve_node(parser); skip_newlines(parser)
struct_body(token, scratch_top, p) ==
    struct_end(token, p.ret, scratch_top, struct_fields(skip_newlines(p), 0))

\* bool found = expect(TOKEN_LBRACE); if (!found) return invalid
struct_open(token, p) ==
    IF ~Matched(p) THEN Ret(p, invalid)
    ELSE struct_body(token, p.scratch_top, reserve_node(p))

parse_struct(p) ==
    IF ~Ok(p) THEN p
    ELSE struct_open(index(p), expect(advance(p), "LBRACE"))


\* error_span(parser, span(parser, first, last), ...): token_start[] and token_kind[]
\* are read at first and last, and the token at last is measured by token_length
error_between(p, first, last, message) ==
    IF ~Ok(p) THEN p
    ELSE IF first >= Len(p.tk) \/ last < 0 \/ last >= Len(p.tk) THEN Fail(p, "ub")
    ELSE IF p.tk[last + 1] \in RelexedKinds THEN Fail(p, "ub")
    ELSE error_span(p, span(p, first, last)[1], span(p, first, last)[2], message)

\* the two skip_newlines and the expect(TOKEN_COMMA) of an iteration of the loop
\* of a complex variant, and the test of the loop
variant_again(p0, count, p) ==
    IF Ok(p) /\ index(p) = index(p0) THEN <<Fail(p, "hang"), count + 1>>
    ELSE variant_fields(p, count + 1)

\* add_scratch(parser, field); count++; if (is_token(TOKEN_RPAREN)) break
variant_next(p0, count, p) ==
    IF ~Ok(p) \/ is_token(p, "RPAREN") THEN <<p, count + 1>>
    ELSE variant_again(p0, count, skip_newlines(expect(skip_newlines(p), "COMMA")))

\* Node field = { NODE_FIELD, lhs, { lhs, rhs } }; p.ret is rhs
variant_field(p0, count, lhs, p) ==
    variant_next(p0, count, add_scratch(p, Node("FIELD", lhs, lhs, p.ret)))

\* if (parser->nodes.kind[lhs] != NODE_IDENTIFIER): token_to_string(parser->
\* token_kind[lhs]) reads the token array at a node index
variant_label(lhs, p) ==
    IF ~Ok(p) THEN p
    ELSE IF node_kind(p, lhs) = "IDENTIFIER" THEN p
    ELSE IF lhs >= Len(p.tk) THEN Fail(p, "ub")
    ELSE error_at(p, p.nodes[lhs + 1].token, "expected an identifier")

\* Index lhs = parse_type(parser); if (match(TOKEN_COLON)) ... rhs = parse_type(parser)
variant_lhs(p0, count, p) ==
    IF Ok(p) /\ is_token(p, "COLON")
    THEN variant_field(p0, count, p.ret, parse_type(variant_label(p.ret, advance(p))))
    ELSE variant_field(p0, count, p.ret, Ret(p, invalid))

\* the while loop of the fields of a complex variant; <<p, count>>
variant_fields(p, count) ==
    IF ~Ok(p) \/ is_token(p, "EOF") \/ is_token(p, "RPAREN") THEN <<p, count>>
    ELSE variant_lhs(p, count, parse_type(p))

\* Index end = array_length(parser->nodes.kind) - 1, and the returned Node
variant_range(name, count, start, p) ==
    Ret(p, Node(aggregate_kind(count, "VARIANT_TWO", "VARIANT"), name, start, num_nodes(p) - 1))

\* Index start = array_length(parser->nodes.kind); push_scratch(scratch_top)
variant_push(name, scratch_top, count, p) ==
    variant_range(name, count, num_nodes(p), push_scratch(p, scratch_top))

\* expect(TOKEN_RPAREN); if (count == 0) error_span(parser, span(parser, name, rparen), ...)
variant_close(name, scratch_top, count, p) ==
    variant_push(name, scratch_top, count,
                 IF count = 0 THEN error_between(p, name, index(p) - 1, "invalid enum variant")
                 ELSE p)

\* the end of the while loop, fields = <<p, count>>
variant_complex(name, scratch_top, fields) ==
    variant_close(name, scratch_top, fields[2], expect(fields[1], "RPAREN"))

\* expr = parse_expr(parser), and the return of a simple variant
variant_simple(name, p) == Ret(p, Node("VARIANT_SIMPLE", name, p.ret, 0))

\* Index name = add_node(parser, NODE_IDENTIFIER, name_token, (Data) { 0 })
variant_name(p) ==
    IF Ok(p) /\ is_token(p, "LPAREN")
        THEN variant_complex(p.ret, p.scratch_top, variant_fields(advance(p), 0))
    ELSE IF Ok(p) /\ is_token(p, "EQ") THEN variant_simple(p.ret, parse_expr(advance(p)))
    ELSE Ret(p, Node("VARIANT_SIMPLE", p.ret, invalid, 0))

parse_enum_variant(p) ==
    IF ~Ok(p) THEN p
    ELSE variant_name(add_node(expect(p, "IDENTIFIER"), "IDENTIFIER", index(p), 0, 0))

\* expect(TOKEN_NEWLINE); skip_newlines(parser), and the test of the loop
enum_again(p0, count, p) ==
    IF Ok(p) /\ index(p) = index(p0) THEN <<Fail(p, "hang"), count + 1>>
    ELSE enum_variants(p, count + 1)

\* unused(match(TOKEN_COMMA)); if (is_token(RBRACE) || is_token(EOF)) break
enum_next(p0, count, p) ==
    IF ~Ok(p) \/ is_token(p, "RBRACE") \/ is_token(p, "EOF") THEN <<p, count + 1>>
    ELSE enum_again(p0, count, skip_newlines(expect(p, "NEWLINE")))

\* Node variant = parse_enum_variant(parser); add_scratch(parser, variant); count++
enum_variant(p0, count, p) == enum_next(p0, count, match(add_scratch(p, p.ret), "COMMA"))

\* the while loop of parse_enum; <<p, count>>
enum_variants(p, count) ==
    IF ~Ok(p) \/ is_token(p, "EOF") \/ is_token(p, "RBRACE") THEN <<p, count>>
    ELSE enum_variant(p, count, parse_enum_variant(p))

\* Index end = array_length(parser->nodes.kind) - 1, and the three set_node
enum_node(token, result, count, start, p) ==
    LET data == aggregate_data(count, start, num_nodes(p) - 1)
    IN  Ret(set_node(p, result, aggregate_kind(count, "ENUM_TWO", "ENUM"),
                     token, data[1], data[2]), result)

\* expect(TOKEN_RBRACE); Index start = array_length(...); push_scratch(scratch_top)
enum_close(token, result, scratch_top, count, p) ==
    enum_node(token, result, count, num_nodes(p), push_scratch(p, scratch_top))

\* the end of the while loop, variants = <<p, count>>
enum_end(token, result, scratch_top, variants) ==
    enum_close(token, result, scratch_top, variants[2], expect(variants[1], "RBRACE"))

\* Index result = reserve_node(parser); size_t scratch_top = parser->scratch_top
enum_body(token, p) == enum_end(token, p.ret, p.scratch_top, enum_variants(p, 0))

\* bool found = expect(TOKEN_LBRACE); if (!found) return invalid
enum_open(token, p) ==
    IF ~Matched(p) THEN Ret(p, invalid)
    ELSE enum_body(token, reserve_node(p))

\* token = parse_type(parser)
enum_type(p) == enum_open(p.ret, expect(p, "LBRACE"))

parse_enum(p) ==
    IF ~Ok(p) THEN p
    ELSE IF is_token(advance(p), "IDENTIFIER") THEN enum_type(parse_type(advance(advance(p))))
    ELSE enum_open(invalid, expect(advance(p), "LBRACE"))


\* if (is_token(RPAREN) || is_token(EOF)) break; expect(TOKEN_COMMA); skip_newlines
params_next(count, p) ==
    IF ~Ok(p) \/ is_token(p, "RPAREN") \/ is_token(p, "EOF") THEN <<p, count>>
    ELSE function_params(skip_newlines(expect(p, "COMMA")), count)

\* Node param = { vararg ? NODE_VARPARAM : NODE_PARAM, name, { type, expr } };
\* add_scratch(parser, param); count++; p.ret is expr
param_node(count, name, vararg, type, p) ==
    params_next(count + 1,
                add_scratch(p, Node(IF vararg THEN "VARPARAM" ELSE "PARAM", name, type, p.ret)))

\* Index type = parse_type(parser); if (match(TOKEN_EQ)) expr = parse_expr(parser)
param_type(count, name, vararg, p) ==
    IF Ok(p) /\ is_token(p, "EQ")
    THEN param_node(count, name, vararg, p.ret, parse_expr(advance(p)))
    ELSE param_node(count, name, vararg, p.ret, Ret(p, invalid))

\* Index name = add_node(parser, NODE_IDENTIFIER, ...).  A name followed by a comma:
\* token_length lexes the previous token, an identifier, again from
\* parser->str + start, and parser->str is NULL
param_name(count, p) ==
    IF ~Ok(p) THEN <<p, count>>
    ELSE IF is_token(p, "COLON") THEN
        IF is_token(advance(p), "ELLIPSIS")
        THEN param_type(count, p.ret, TRUE, parse_type(advance(advance(p))))
        ELSE param_type(count, p.ret, FALSE, parse_type(advance(p)))
    ELSE IF ~is_token(p, "COMMA") THEN <<p, -1>>
    ELSE <<Fail(p, "ub"), count>>

\* the while loop of parse_function_params; <<p, count>>, count -1 when the
\* function returns -1 from inside the loop
function_params(p, count) ==
    IF ~Ok(p) \/ ~is_token(p, "IDENTIFIER") THEN <<p, count>>
    ELSE param_name(count, add_node(advance(p), "IDENTIFIER", index(p), 0, 0))

\* Index end = array_length(parser->nodes.kind) - 1; *range = (Range) { start, end }
params_range(count, start, p) == Ret(p, <<count, start, num_nodes(p) - 1>>)

\* expect(TOKEN_RPAREN); Index start = array_length(...); push_scratch(scratch_top)
params_close(scratch_top, count, p) ==
    params_range(count, num_nodes(p), push_scratch(p, scratch_top))

\* the end of the while loop, params = <<p, count>>
params_end(scratch_top, params) ==
    IF params[2] = -1 THEN Ret(params[1], <<-1, 0, 0>>)
    ELSE params_close(scratch_top, params[2], expect(params[1], "RPAREN"))

\* returns <<count, range.start, range.end>>; the range is not written when the
\* list is "()" or the function returns -1, and is not read in those cases
parse_function_params(p) ==
    IF ~Ok(p) THEN p
    ELSE IF is_token(advance(p), "RPAREN") THEN Ret(advance(advance(p)), <<0, 0, 0>>)
    ELSE params_end(p.scratch_top, function_params(advance(p), 0))

\* the words of the FuncProtoOne or FuncProto handed to extra()
func_proto_kind(count) == IF count <= 1 THEN "FUNC_PROTO_ONE" ELSE "FUNC_PROTO"
func_proto_data(count, start, end, calling_convention) ==
    IF count = 0 THEN <<invalid, calling_convention>>
    ELSE IF count = 1 THEN <<start, calling_convention>>
    ELSE <<start, end, calling_convention>>

\* Index proto = extra(data); the set_node of func_proto and of result.  f holds
\* the locals of parse_function
func_node(f, body, p) ==
    Ret(set_node(set_node(p, f.func_proto, func_proto_kind(f.count), invalid, p.ret,
                          f.return_type),
                 f.result, "FUNC", f.start, f.func_proto, body),
        f.result)

\* body = parse_expr(parser) or body = parse_block(parser)
func_body(f, p) ==
    func_node(f, p.ret, add_extra(p, func_proto_data(f.count, f.args[1], f.args[2],
                                                     f.calling_convention)))

\* skip_newlines(parser); if (match(TOKEN_FAT_ARROW))
func_arrow(f, p) ==
    IF Ok(p) /\ is_token(p, "FAT_ARROW") THEN func_body(f, parse_expr(advance(p)))
    ELSE func_body(f, parse_block(p))

\* calling_convention = add_node(parser, NODE_STRING, index() - 1, (Data) { 0 })
func_string(f, p) == func_arrow([f EXCEPT !.calling_convention = p.ret], skip_newlines(p))

\* if (match(TOKEN_STRING))
func_convention(f, p) ==
    IF Ok(p) /\ is_token(p, "STRING")
    THEN func_string(f, add_node(advance(p), "STRING", index(p), 0, 0))
    ELSE func_arrow(f, skip_newlines(p))

\* return_type = parse_type(parser)
func_return(f, p) == func_convention([f EXCEPT !.return_type = p.ret], p)

\* if (match(TOKEN_ARROW))
func_type(f, p) ==
    IF is_token(p, "ARROW") THEN func_return(f, parse_type(advance(p)))
    ELSE func_convention(f, p)

\* pop_node(parser, func_proto); pop_node(parser, result); parser->token_index = start
func_reset(start, p) == Ret([p EXCEPT !.ti = IF Ok(p) THEN start ELSE @], invalid)

\* int count = parse_function_params(parser, &args); p.ret is <<count, start, end>>
func_params(f, p) ==
    IF ~Ok(p) THEN p
    ELSE IF p.ret[1] = -1 THEN func_reset(f.start, pop_node(pop_node(p, f.func_proto), f.result))
    ELSE func_type([f EXCEPT !.count = p.ret[1], !.args = <<p.ret[2], p.ret[3]>>], p)

\* Index func_proto = reserve_node(parser); Index start = index()
func_start(result, p) ==
    func_params([result |-> result, func_proto |-> p.ret, start |-> index(p), count |-> 0,
                 args |-> <<0, 0>>, return_type |-> invalid, calling_convention |-> invalid],
                parse_function_params(p))

\* Index result = reserve_node(parser)
func_result(p) == func_start(p.ret, reserve_node(p))

parse_function(p) ==
    IF ~Ok(p) THEN p
    ELSE func_result(reserve_node(p))

\* expr = parse_expr(parser); expect(TOKEN_RPAREN); return expr
paren_close(p) == Ret(expect(p, "RPAREN"), p.ret)

\* Index expr = parse_function(parser); if (expr != invalid) return expr; advance()
paren_expr(p) ==
    IF ~Ok(p) \/ p.ret # invalid THEN p
    ELSE paren_close(parse_expr(advance(p)))

parse_primary(p) ==
    IF ~Ok(p) THEN p
    ELSE IF is_token(p, "IDENTIFIER") THEN add_node(advance(p), "IDENTIFIER", index(p), 0, 0)
    ELSE IF is_token(p, "INT") THEN add_node(advance(p), "INT", index(p), 0, 0)
    ELSE IF is_token(p, "LPAREN") THEN paren_expr(parse_function(p))
    ELSE IF is_token(p, "STRUCT") THEN parse_struct(p)
    ELSE IF is_token(p, "ENUM") THEN parse_enum(p)
    ELSE IF is_token(p, "RBRACKET") THEN Ret(p, invalid)
    ELSE Fail(p, "todo")


\* the table of current_unary; "ROOT" is the kind 0 of the entries left out
unary_table(kind) ==
    CASE kind = "PLUS" -> "UNARY_PLUS"
      [] kind = "MINUS" -> "UNARY_MINUS"
      [] kind = "STAR" -> "DEREF"
      [] kind = "EXCLAMATION" -> "UNARY_NOT"
      [] kind = "TILDE" -> "BITNOT"
      [] kind = "AND" -> "REF"
      [] OTHER -> "ROOT"

\* <<parser, op>>
current_unary(p) ==
    LET kind == unary_table(current(p))
    IN  IF kind = "REF" /\ peek(p, 1) = "MUT"
        THEN <<advance(p), [kind |-> "MUT_REF", token |-> index(p) + 1]>>
        ELSE <<p, [kind |-> kind, token |-> index(p)]>>

\* advance(); return add_node(parser, op.kind, op.token, { parse_lhs(parser) })
unary_node(op, p) == add_node(p, op.kind, op.token, p.ret, 0)

\* Op op = current_unary(parser), u = <<parser, op>>; p is the parser before it
unary_op(p, u) ==
    IF u[2].kind # "ROOT" THEN unary_node(u[2], parse_lhs(advance(u[1])))
    ELSE parse_primary(p)

parse_lhs(p) ==
    IF ~Ok(p) THEN p
    ELSE unary_op(p, current_unary(p))

Op(prec, kind) == [prec |-> prec, kind |-> kind]

\* the table of current_op
op_table(kind) ==
    CASE kind = "PIPE_GT" -> Op(PREC_PIPE, "PIPE_EXPR")
      [] kind = "OR" -> Op(PREC_OR, "OR")
      [] kind = "PIPE_PIPE" -> Op(PREC_LOGICAL_OR, "OR_EXPR")
      [] kind = "AND_AND" -> Op(PREC_LOGICAL_AND, "AND_EXPR")
      [] kind = "EQ_EQ" -> Op(PREC_COMPARISON, "EQ_EXPR")
      [] kind = "EXCLAMATION_EQ" -> Op(PREC_COMPARISON, "NOTEQ_EXPR")
      [] kind = "LT" -> Op(PREC_COMPARISON, "LT_EXPR")
      [] kind = "GT" -> Op(PREC_COMPARISON, "GT_EXPR")
      [] kind = "LT_EQ" -> Op(PREC_COMPARISON, "LTEQ_EXPR")
      [] kind = "GT_EQ" -> Op(PREC_COMPARISON, "GTEQ_EXPR")
      [] kind = "PLUS" -> Op(PREC_TERM, "ADD_EXPR")
      [] kind = "MINUS" -> Op(PREC_TERM, "SUB_EXPR")
      [] kind = "CARET" -> Op(PREC_TERM, "BITXOR_EXPR")
      [] kind = "PIPE" -> Op(PREC_TERM, "BITOR_EXPR")
      [] kind = "STAR" -> Op(PREC_FACTOR, "MUL_EXPR")
      [] kind = "SLASH" -> Op(PREC_FACTOR, "DIV_EXPR")
      [] kind = "PERCENTAGE" -> Op(PREC_FACTOR, "MOD_EXPR")
      [] kind = "AND" -> Op(PREC_FACTOR, "BITAND_EXPR")
      [] kind = "LT_LT" -> Op(PREC_FACTOR, "LSHIFT_EXPR")
      [] kind = "GT_GT" -> Op(PREC_FACTOR, "RSHIFT_EXPR")
      [] kind = "AS" -> Op(PREC_AS, "AS_EXPR")
      [] OTHER -> Op(PREC_NONE, "ROOT")

current_op(p) == [prec |-> op_table(current(p)).prec, kind |-> op_table(current(p)).kind,
                  token |-> index(p)]

\* rhs_prec without the + 1: operators of one level would group to the right
rhs_prec_same_level(op) == op.prec

\* the precedence the right-hand side of an operator is parsed at
rhs_prec(op) == op.prec + 1

\* lhs = add_node(parser, op.kind, op.token, { lhs, rhs }); op = current_op(parser)
binary_next(prec, p) == binary_loop(p, prec, p.ret)

\* Index rhs = parse_expr_prec(parser, op.prec + 1)
binary_node(prec, op, lhs, p) ==
    binary_next(prec, add_node(p, op.kind, op.token, lhs, p.ret))

\* while (prec <= op.prec) { advance(); ...
binary_op(p, prec, lhs, op) ==
    IF prec <= op.prec
    THEN binary_node(prec, op, lhs, parse_expr_prec(advance(p), rhs_prec(op)))
    ELSE Ret(p, lhs)

\* the while loop of parse_expr_prec
binary_loop(p, prec, lhs) ==
    IF ~Ok(p) THEN p
    ELSE binary_op(p, prec, lhs, current_op(p))

\* Index lhs = parse_lhs(parser); if (lhs == invalid) return invalid
expr_lhs(prec, p) ==
    IF ~Ok(p) THEN p
    ELSE IF p.ret = invalid THEN Ret(p, invalid)
    ELSE binary_loop(p, prec, p.ret)

parse_expr_prec(p, prec) == expr_lhs(prec, parse_lhs(p))

\* the while loop of parse_name_list
name_list(p) ==
    IF ~Ok(p) \/ is_token(p, "EOF") \/ ~is_token(p, "IDENTIFIER") THEN p
    ELSE LET p1 == add_node(advance(p), "IDENTIFIER", index(p), 0, 0)
         IN  IF Ok(p1) /\ is_token(p1, "COMMA") THEN name_list(advance(p1)) ELSE p1

\* Index end = array_length(parser->nodes.kind) - 1, and the Range returned
name_range(start, p) ==
    IF num_nodes(p) - 1 < start THEN Ret(p, <<0, 0>>)
    ELSE Ret(p, <<start, num_nodes(p) - 1>>)

\* returns the Range as <<start, end>>
parse_name_list(p) == name_range(num_nodes(p), name_list(p))

\* set_node(parser, init, kind, identifier, { type, expr }); return init; p.ret is expr
init_node(kind, identifier, init, type, p) ==
    Ret(set_node(p, init, kind, identifier, type, p.ret), init)

\* name : type : expr and name : type = expr, after Index type = parse_type(parser)
init_typed(identifier, init, p) ==
    IF Ok(p) /\ is_token(p, "COLON")
        THEN init_node("CONST", identifier, init, p.ret, parse_expr(advance(p)))
    ELSE IF Ok(p) /\ is_token(p, "EQ")
        THEN init_node("VAR", identifier, init, p.ret, parse_expr(advance(p)))
    ELSE Ret(error_at_current(p, "expected one of ':' or '='"), invalid)

\* Index init = reserve_node(parser) after match(TOKEN_COLON)
init_type(identifier, p) == init_typed(identifier, p.ret, parse_type(p))

\* name := expr and name :: expr, after Index init = reserve_node(parser)
init_untyped(kind, identifier, p) == init_node(kind, identifier, p.ret, 0, parse_expr(p))

\* if (!expect(TOKEN_COLON_COLON)) return invalid
init_const(identifier, p) ==
    IF ~Matched(p) THEN Ret(p, invalid)
    ELSE init_untyped("CONST", identifier, reserve_node(p))

parse_init(p, identifier) ==
    IF ~Ok(p) THEN p
    ELSE IF is_token(p, "COLON") THEN init_type(identifier, reserve_node(advance(p)))
    ELSE IF is_token(p, "COLON_EQ") THEN init_untyped("VAR", identifier, reserve_node(advance(p)))
    ELSE init_const(identifier, expect(p, "COLON_COLON"))

\* import_kind without the foreign kinds
import_kind_never_foreign(foreign, complex) == IF complex THEN "IMPORT_COMPLEX" ELSE "IMPORT"

import_kind(foreign, complex) ==
    IF complex THEN (IF foreign THEN "FOREIGN_IMPORT_COMPLEX" ELSE "IMPORT_COMPLEX")
    ELSE (IF foreign THEN "FOREIGN_IMPORT" ELSE "IMPORT")

\* the set_node of result; list is invalid when the import has no braces
import_node(foreign, result, module, list, as_name, p) ==
    IF ~Ok(p) THEN p
    ELSE IF list # invalid
        THEN Ret(set_node(p, result, import_kind(foreign, TRUE), module, as_name, list), result)
    ELSE Ret(set_node(p, result, import_kind(foreign, FALSE), module, as_name, 0), result)

\* if (match(TOKEN_AS)) { as_name = index(); advance(); }
import_as(foreign, result, module, list, p) ==
    IF Ok(p) /\ is_token(p, "AS")
    THEN import_node(foreign, result, module, list, index(p) + 1, advance(advance(p)))
    ELSE import_node(foreign, result, module, list, invalid, p)

\* the node of the list after parse_name_list; p.ret is the Range
import_list(list, p) ==
    IF ~Ok(p) THEN p
    ELSE IF p.ret[1] # 0 /\ p.ret[2] # 0
        THEN set_node(p, list, "RANGE", invalid, p.ret[1], p.ret[2])
    ELSE IF is_token(p, "ELLIPSIS") THEN set_node(advance(p), list, "ALL_SYMBOLS", index(p), 0, 0)
    ELSE error_at_current(p, "expected either an identifier or ...")

\* Range list_range = parse_name_list(parser), then expect(TOKEN_RBRACE)
import_names(foreign, result, module, list, p) ==
    import_as(foreign, result, module, list, expect(import_list(list, p), "RBRACE"))

\* list = reserve_node(parser) after match(TOKEN_LBRACE)
import_braces(foreign, result, module, p) ==
    import_names(foreign, result, module, p.ret, parse_name_list(p))

\* Index module = index(); advance(); if (match(TOKEN_LBRACE))
import_module(foreign, result, module, p) ==
    IF Ok(p) /\ is_token(p, "LBRACE")
    THEN import_braces(foreign, result, module, reserve_node(advance(p)))
    ELSE import_as(foreign, result, module, invalid, p)

\* Index result = reserve_node(parser)
import_result(foreign, p) == import_module(foreign, p.ret, index(p), advance(p))

parse_import(p, foreign) ==
    IF ~Ok(p) THEN p
    ELSE import_result(foreign, reserve_node(advance(p)))

next_decl(p) ==
    IF ~Ok(p) THEN p
    ELSE IF current(p) \in {"EOF", "FOREIGN", "IMPORT", "WHEN", "USING", "AT"} THEN p
    ELSE IF is_token(p, "IDENTIFIER") /\ peek(p, 1) \in {"COLON", "COLON_COLON", "COLON_EQ"} THEN p
    ELSE next_decl(advance(p))

\* Index end = array_length(parser->nodes.kind) - 1; expect(TOKEN_RBRACE)
foreign_node(foreign, result, start, p) ==
    Ret(set_node(expect(p, "RBRACE"), result, "FOREIGN", foreign, start, num_nodes(p) - 1),
        result)

\* Index result = reserve_node(parser); the empty block, or parse_decls(parser)
foreign_body(foreign, p) ==
    IF Ok(p) /\ is_token(p, "RBRACE")
    THEN Ret(set_node(advance(p), p.ret, "FOREIGN", foreign, 0, 0), p.ret)
    ELSE foreign_node(foreign, p.ret, num_nodes(p), parse_decls(p))

\* if (!expect(TOKEN_LBRACE)) return invalid
foreign_open(foreign, p) ==
    IF ~Matched(p) THEN Ret(p, invalid)
    ELSE foreign_body(foreign, reserve_node(p))

parse_foreign(p) ==
    LET p1 == advance(p)
    IN  IF ~Ok(p1) THEN p1
        ELSE IF is_token(p1, "IMPORT") THEN parse_import(p1, TRUE)
        ELSE foreign_open(index(p), expect(p1, "LBRACE"))

\* Index identifier = add_node(parser, NODE_IDENTIFIER, index() - 1, ...); advance()
decl_name(p) == parse_init(advance(p), p.ret)

\* parse_decl after its skip_newlines
decl_kind(p) ==
    IF ~Ok(p) THEN p
    \* index() - 1 is taken before advance(); Index is uint32_t, and the value
    \* 2^32 - 1 it wraps to at index 0 is kept here as -1
    ELSE IF is_token(p, "IDENTIFIER") THEN decl_name(add_node(p, "IDENTIFIER", index(p) - 1, 0, 0))
    ELSE IF current(p) \in {"AT", "WHEN", "USING"} THEN Ret(p, invalid)
    ELSE IF is_token(p, "IMPORT") THEN parse_import(p, FALSE)
    ELSE IF is_token(p, "FOREIGN") THEN parse_foreign(p)
    ELSE IF is_token(p, "BAD") THEN Ret(advance(p), invalid)
    ELSE Ret(error_at_current(p, "invalid declaration"), invalid)

parse_decl(p) == decl_kind(skip_newlines(p))

\* skip_newlines(parser), and the test of the loop
decls_again(p0, p) ==
    IF Ok(p) /\ index(p) = index(p0) THEN Fail(p, "hang")
    ELSE decls_loop(p)

\* array_push(parser->decls, decl)
decls_push(p0, p) ==
    decls_again(p0, IF Ok(p) THEN skip_newlines([p EXCEPT !.decls = Append(@, p.ret)]) ELSE p)

\* Index decl = parse_decl(parser); if (decl == invalid) { next_decl; parse_decl }
decls_retry(p0, p) ==
    decls_push(p0, IF Ok(p) /\ p.ret = invalid THEN parse_decl(next_decl(p)) ELSE p)

\* the while loop of parse_decls
decls_loop(p) ==
    IF ~Ok(p) \/ is_token(p, "EOF") THEN p
    ELSE decls_retry(p, parse_decl(p))

parse_decls(p) == decls_loop(skip_newlines(p))


\* the Parser that parse() builds from the LexedSrc: str, scratch, decls and the extra
\* buffer are zero, and lex() hands over no diagnostics
Parser(kind, start, order) ==
    [tk |-> kind, ts |-> start, ti |-> 0, nodes |-> <<>>, extra |-> <<>>, extra_len |-> 0,
     decls |-> <<>>, diags |-> <<>>, scratch |-> <<>>, scratch_top |-> 0,
     st |-> "ok", ret |-> 0, rtl |-> order]

\* parse() with a second ROOT node pushed before parse_decls()
parse_two_roots(kind, start, order) ==
    parse_decls(add_node(add_node(Parser(kind, start, order), "ROOT", 0, 0, 0), "ROOT", 0, 0, 0))

\* parse() after its call of lex()
parse(kind, start, order) == parse_decls(add_node(Parser(kind, start, order), "ROOT", 0, 0, 0))

Ast(p) == [nodes |-> p.nodes, extra |-> p.extra, decls |-> p.decls, diags |-> p.diags,
           token_index |-> p.ti, scratch |-> p.scratch, scratch_top |-> p.scratch_top]

NoAst == [nodes |-> <<>>, extra |-> <<>>, decls |-> <<>>, diags |-> <<>>,
          token_index |-> 0, scratch |-> <<>>, scratch_top |-> 0]

(***************************************************************************)
(* Sources.  The sources the model runs parse() on: every short string     *)
(* over a small alphabet, and the shapes of declaration the tests of       *)
(* test.c exercise, written with single spaces between the lexemes.        *)
(***************************************************************************)
MaxSrcLen == 3
MaxFields == 3
MaxParams == 3
MaxNames == 3

Alphabet == {"a", ":", "=", "/", DQUOTE, BSLASH, "@", NL}

RECURSIVE Strings(_)
Strings(n) ==
    IF n = 0 THEN {<<>>}
    ELSE Strings(n - 1) \cup {Append(s, c) : s \in {r \in Strings(n - 1) : Len(r) = n - 1}, c \in Alphabet}

RawSources == Strings(MaxSrcLen)

RECURSIVE Join(_)
Join(words) ==
    IF Len(words) = 0 THEN <<>>
    ELSE IF Len(words) = 1 THEN words[1]
    ELSE words[1] \o <<" ">> \o Join(Tail(words))

Spell(kind) == TokenSpelling[kind]

\* the names used for fields, variants, parameters and imported symbols
Names == <<"b", "c", "d", "e", "f", "g", "h", "k">>
NameAt(i) == <<Names[i]>>

\* name : T = initializer
Decl(name, initializer) == <<<<name>>, Spell("COLON"), <<"T">>, Spell("EQ")>> \o initializer

\* every operator and punctuation spelling of the token table
OperatorKinds ==
    LET first == CHOOSE i \in 1..Len(TOKENS) : TOKENS[i][1] = "LPAREN"
        last == CHOOSE i \in 1..Len(TOKENS) : TOKENS[i][1] = "SEMICOLON"
    IN  {TOKENS[i][1] : i \in first..last}

OperatorSources == {<<" ">> \o Spell(k) \o <<" ">> : k \in OperatorKinds}

\* the operators of the table of current_op
BinaryKinds == {k \in TokenKinds : op_table(k).kind # "ROOT"}

ExprSources ==
    {Join(Decl("a", <<<<"a">>, Spell(o1), <<"b">>>>)) : o1 \in BinaryKinds}
    \cup {Join(Decl("a", <<<<"a">>, Spell(o1), <<"b">>, Spell(o2), <<"c">>>>)) :
            o1 \in BinaryKinds, o2 \in BinaryKinds}
    \cup {Join(Decl("h", <<<<"2">>, Spell("STAR"), <<"1">>, Spell("MINUS"),
                           <<"2">>, Spell("STAR"), <<"3">>>>))}

\* the children of an aggregate: n of them, each in one of its forms, with sep between
RECURSIVE Children(_, _, _)
Children(n, forms, sep) ==
    IF n = 0 THEN {<<>>}
    ELSE IF n = 1 THEN {<<NameAt(1)>> \o f : f \in forms}
    ELSE {c \o sep \o <<NameAt(n)>> \o f : c \in Children(n - 1, forms, sep), f \in forms}

FieldForms == {<<Spell("COLON"), <<"T">>>>, <<Spell("COLON"), <<"T">>, Spell("EQ"), <<"1">>>>}
VariantForms == {<<>>, <<Spell("EQ"), <<"1">>>>, <<Spell("LPAREN"), <<"T">>, Spell("RPAREN")>>}
ParamForms == {<<Spell("COLON"), <<"T">>>>}

StructSources ==
    {Join(Decl("a", <<Spell("STRUCT"), Spell("LBRACE")>> \o c \o <<Spell("RBRACE")>>)) :
        c \in UNION {Children(n, FieldForms, <<Spell("COMMA")>>) : n \in 0..MaxFields}}

EnumSources ==
    {Join(Decl("a", <<Spell("ENUM"), Spell("LBRACE")>> \o c \o <<Spell("RBRACE")>>)) :
        c \in UNION {Children(n, VariantForms, <<<<NL>>>>) : n \in 0..MaxFields}}

\* a function literal with n parameters
Signatures ==
    {<<Spell("LPAREN")>> \o c \o <<Spell("RPAREN")>> \o r :
        c \in UNION {Children(n, ParamForms, <<Spell("COMMA")>>) : n \in 0..MaxParams},
        r \in {<<>>, <<Spell("ARROW"), <<"T">>>>}}
Bodies == {<<Spell("LBRACE"), Spell("RBRACE")>>, <<Spell("LBRACE"), <<NL>>, Spell("RBRACE")>>,
           <<Spell("LBRACE"), <<"b">>, Spell("RBRACE")>>, <<Spell("FAT_ARROW"), <<"b">>>>}
Functions == {s \o b : s \in Signatures, b \in Bodies}

FuncSources ==
    {Join(Decl("a", f)) : f \in Functions}
    \cup {Join(Decl("a", s1 \o <<Spell("LBRACE"), Spell("RBRACE"), <<NL>>>>)
               \o Decl("b", s2 \o <<Spell("LBRACE"), Spell("RBRACE")>>)) :
            s1 \in Signatures, s2 \in Signatures}

NameLists ==
    {<<>>, <<Spell("LBRACE"), Spell("ELLIPSIS"), Spell("RBRACE")>>}
    \cup {<<Spell("LBRACE")>> \o c \o <<Spell("RBRACE")>> :
            c \in UNION {Children(n, {<<>>}, <<Spell("COMMA")>>) : n \in 1..MaxNames}}

ImportSources ==
    {Join(f \o <<Spell("IMPORT"), <<"M">>>> \o l \o a) :
        f \in {<<>>, <<Spell("FOREIGN")>>}, l \in NameLists,
        a \in {<<>>, <<Spell("AS"), <<"A">>>>}}

\* identifier-shaped lexemes: the keyword spellings, prefixes and extensions of
\* keywords, and words of every class of first byte
WordSources ==
    {Spell(KeywordOrder[i]) : i \in 2..Len(KeywordOrder)}
    \cup {<<"i", "m">>, <<"f", "u", "n", "c", "t", "i", "o", "n">>, <<"a", "s", "_">>,
          <<"f", "a", "l", "l", "t", "h", "r", "o", "u", "g", "h", "s">>,
          <<"g">>, <<"h", "i">>, <<"x">>, <<"y">>, <<"z">>, <<"x", "s">>,
          <<"A">>, <<"I", "f">>, <<"Z">>, <<"_">>, <<"_", "i", "f">>}

\* foreign blocks, closed and left open, and an enum variant with empty parentheses
ForeignSources ==
    {Join(<<Spell("FOREIGN"), Spell("LBRACE")>> \o body) :
        body \in {<<>>, <<Spell("RBRACE")>>, <<<<NL>>, Spell("RBRACE")>>,
                  <<Spell("IMPORT"), <<"M">>>>, <<Spell("IMPORT"), <<"M">>, <<NL>>, Spell("RBRACE")>>}}

\* foreign { D1 ... Dn } with well-formed declarations, alone and followed by a
\* further declaration
ForeignDecls == {<<Spell("IMPORT"), <<"M">>>>, <<<<"b">>, Spell("COLON"), <<"T">>, Spell("EQ"), <<"1">>>>}
ForeignBlocks ==
    {<<Spell("FOREIGN"), Spell("LBRACE")>> \o d \o close : d \in ForeignDecls,
        close \in {<<Spell("RBRACE")>>, <<<<NL>>, Spell("RBRACE")>>}}
    \cup {<<Spell("FOREIGN"), Spell("LBRACE"), <<NL>>>> \o d1 \o <<<<NL>>>> \o d2
            \o <<<<NL>>, Spell("RBRACE")>> : d1 \in ForeignDecls, d2 \in ForeignDecls}
ForeignBlockSources ==
    {Join(b \o rest) : b \in ForeignBlocks,
        rest \in {<<>>, <<<<NL>>, Spell("IMPORT"), <<"N">>>>}}

\* a top-level declaration that fails, tokens to skip, and a well-formed declaration
FailingDecls == {<<Spell("EQ")>>, <<Spell("RBRACE"), Spell("COMMA")>>, <<<<"a">>>>,
                 <<<<"a">>, Spell("COLON"), <<"T">>>>, <<<<"1">>>>,
                 <<Spell("AT")>>, <<Spell("WHEN")>>, <<Spell("USING")>>}
GoodDecls == {<<Spell("IMPORT"), <<"M">>>>, <<Spell("FOREIGN"), Spell("IMPORT"), <<"M">>>>,
              <<<<"b">>, Spell("COLON"), <<"T">>, Spell("EQ"), <<"1">>>>,
              <<<<"b">>, Spell("COLON_EQ"), <<"1">>>>}
RecoverySources ==
    {Join(bad \o skipped \o good) : bad \in FailingDecls, good \in GoodDecls,
        skipped \in {<<>>, <<Spell("RPAREN"), <<NL>>>>}}

\* one newline after a binary operator, after the comma of a parameter list and of
\* a field list, and inside ( ) and [ ]
NewlineSources ==
    {Join(Decl("a", <<<<"a">>, Spell(o1), <<NL>>, <<"b">>>>)) : o1 \in {"PLUS", "STAR"}}
    \cup {Join(Decl("a", <<Spell("LPAREN"), <<"b">>, Spell("COLON"), <<"T">>, Spell("COMMA"), <<NL>>,
                           <<"c">>, Spell("COLON"), <<"T">>, Spell("RPAREN"),
                           Spell("LBRACE"), Spell("RBRACE")>>)),
           Join(Decl("a", <<Spell("STRUCT"), Spell("LBRACE"), <<"b">>, Spell("COLON"), <<"T">>,
                           Spell("COMMA"), <<NL>>, <<"c">>, Spell("COLON"), <<"T">>, Spell("RBRACE")>>)),
           Join(Decl("a", <<Spell("LPAREN"), <<NL>>, <<"b">>, Spell("COLON"), <<"T">>, Spell("RPAREN"),
                           Spell("LBRACE"), Spell("RBRACE")>>)),
           Join(Decl("a", <<Spell("LPAREN"), <<"b">>, Spell("COLON"), <<"T">>, <<NL>>, Spell("RPAREN"),
                           Spell("LBRACE"), Spell("RBRACE")>>)),
           Join(<<<<"a">>, Spell("COLON"), Spell("LBRACKET"), <<NL>>, <<"1">>, Spell("RBRACKET"),
                  <<"T">>, Spell("EQ"), <<"1">>>>),
           Join(<<<<"a">>, Spell("COLON"), Spell("LBRACKET"), <<"1">>, <<NL>>, Spell("RBRACKET"),
                  <<"T">>, Spell("EQ"), <<"1">>>>)}

\* a char literal and a string holding one escape: the supported ones, \x with one
\* and two hex digits, \x with none and a backslash before another byte
SupportedEscapes ==
    {<<c>> : c \in {BSLASH, QUOTE, DQUOTE, "0", "t", "v", "r", "n", "b", "a"}}
    \cup {<<"x", "4">>, <<"x", "4", "f">>}
InvalidEscapes == {<<"x">>, <<"q">>}
EscapeSources ==
    {<<q, BSLASH>> \o e \o <<q>> : q \in {QUOTE, DQUOTE}, e \in SupportedEscapes \cup InvalidEscapes}

\* sources that end inside a line comment, in a quote and in a UTF-8 lead byte
EndSources ==
    {<<"/", "/", " ", "a">>, <<"/", "/", "/", " ", "a">>, <<QUOTE>>, <<"a", " ", QUOTE>>,
     <<LEAD2>>, <<"a", LEAD3>>, <<"a", LEAD4, CONT>>}

\* imports cut off before the module name and before the name after `as`
CursorSources ==
    {Join(<<Spell("IMPORT")>> \o rest) :
        rest \in {<<>>, <<<<"M">>, Spell("AS")>>, <<<<"M">>, Spell("LBRACE")>>}}

EmptyVariantSources ==
    {Join(Decl("a", <<Spell("ENUM"), Spell("LBRACE"), <<"b">>, Spell("LPAREN"), Spell("RPAREN")>>
                    \o rest)) :
        rest \in {<<Spell("RBRACE")>>, <<<<NL>>, <<"c">>, Spell("RBRACE")>>}}

\* two enum variants with each separator between them
VariantSeparators ==
    {<<Spell("COMMA")>>, <<<<NL>>>>, <<Spell("COMMA"), <<NL>>>>, <<Spell("COMMA"), <<NL>>, <<NL>>>>}

SeparatorSources ==
    {Join(Decl("a", <<Spell("ENUM"), Spell("LBRACE"), <<"b">>>> \o sep
                    \o <<<<"c">>, Spell("RBRACE")>>)) : sep \in VariantSeparators}

\* a struct whose field list is followed by one trailing comma, with or without
\* newlines around the comma
TrailingCommas ==
    {<<Spell("COMMA")>>, <<<<NL>>, Spell("COMMA")>>, <<Spell("COMMA"), <<NL>>>>,
     <<<<NL>>, Spell("COMMA"), <<NL>>>>}

TrailingCommaSources ==
    {Join(Decl("a", <<Spell("STRUCT"), Spell("LBRACE")>> \o c \o t \o <<Spell("RBRACE")>>)) :
        c \in UNION {Children(n, FieldForms, <<Spell("COMMA")>>) : n \in 0..MaxFields},
        t \in TrailingCommas}

\* a parenthesized expression as an initializer: ( a ) and ( a o b )
ParenSources ==
    {Join(Decl("a", <<Spell("LPAREN"), <<"a">>, Spell("RPAREN")>>))}
    \cup {Join(Decl("a", <<Spell("LPAREN"), <<"a">>, Spell(o1), <<"b">>, Spell("RPAREN")>>)) :
            o1 \in {"PLUS", "STAR", "EQ_EQ"}}

\* aggregates nested in a field type, a field initializer, a parameter default
\* and a variant payload
InnerStruct == <<Spell("STRUCT"), Spell("LBRACE"), <<"c">>, Spell("COLON"), <<"T">>, Spell("COMMA"),
                 <<"d">>, Spell("COLON"), <<"T">>, Spell("RBRACE")>>
InnerEnum == <<Spell("ENUM"), Spell("LBRACE"), <<"c">>, Spell("LPAREN"), <<"x">>, Spell("COLON"),
               <<"T">>, Spell("COMMA"), <<"U">>, Spell("RPAREN"), <<NL>>, <<"d">>, <<NL>>,
               <<"e">>, Spell("LPAREN"), <<"T">>, Spell("RPAREN"), Spell("RBRACE")>>
NestedSources ==
    {Join(Decl("a", <<Spell("STRUCT"), Spell("LBRACE"), <<"b">>, Spell("COLON"), <<"T">>,
                      Spell("COMMA"), <<"e">>, Spell("COLON")>> \o inner
                    \o <<Spell("COMMA"), <<"f">>, Spell("COLON"), <<"T">>, Spell("RBRACE")>>)) :
        inner \in {InnerStruct, InnerEnum, <<<<"T">>, Spell("EQ")>> \o InnerStruct,
                   <<<<"T">>, Spell("EQ")>> \o InnerEnum}}
    \cup {Join(Decl("a", <<Spell("LPAREN"), <<"b">>, Spell("COLON"), <<"T">>, Spell("EQ")>> \o inner
                    \o <<Spell("COMMA"), <<"f">>, Spell("COLON"), <<"T">>, Spell("RPAREN"),
                         Spell("LBRACE"), Spell("RBRACE")>>)) :
        inner \in {InnerStruct, InnerEnum}}
    \cup {Join(Decl("a", InnerEnum))}

Sources == RawSources \cup OperatorSources \cup ExprSources \cup StructSources
           \cup EnumSources \cup FuncSources \cup ImportSources \cup WordSources
           \cup ForeignSources \cup EmptyVariantSources \cup SeparatorSources
           \cup TrailingCommaSources \cup ParenSources \cup NestedSources
           \cup ForeignBlockSources \cup RecoverySources \cup NewlineSources
           \cup EscapeSources \cup EndSources \cup CursorSources

(***************************************************************************)
(* The virtual file system (vfs.c): the array files of (path, content),    *)
(* a stretchy buffer of util.h.                                            *)
(***************************************************************************)
MaxFiles == 5

\* the null pointer, which is no string of bytes
NULL == <<"NULL">>

\* the (path, content) pairs handed to add_file; a content is a stringview, its
\* bytes and its length
Paths == {<<"p">>, <<"q">>}
Contents == {<<"a", "b">>, <<"a", NUL, "b">>}
stringview(str, length) == [str |-> str, length |-> length]

\* strf(fmt, ...) with one %s or %.*s: vsnprintf copies the bytes of the argument
\* up to its terminating NUL, and no more than the precision
RECURSIVE strf(_, _)
strf(str, precision) ==
    IF precision = 0 \/ Len(str) = 0 \/ Head(str) = NUL THEN <<>>
    ELSE <<Head(str)>> \o strf(Tail(str), precision - 1)

File(path, content) == [path |-> path, content |-> content]

\* FileId is uint16_t
FileId(n) == n % 65536

\* array_growf(a, elem_size, 1, 0): the capacity after array_maybegrow(files, 1)
array_grow(length, cap) ==
    IF length + 1 <= cap THEN cap
    ELSE LET wanted == IF length + 1 > 2 * cap THEN length + 1 ELSE 2 * cap
         IN  IF wanted > 4 THEN wanted ELSE 4

NoCall == [op |-> "none", id |-> 0, value |-> NULL]
Call(op, id, value) == [op |-> op, id |-> id, value |-> value]

\* what files[file_id] holds when file_id = array_length(files) and the slot is
\* inside the allocation: the slot was never written
Indeterminate == {File(NULL, stringview(<<>>, 0))}
                 \cup {File(p, stringview(c, Len(c))) : p \in Paths, c \in Contents}

(***************************************************************************)
(* The run of parse(file_id, src): lex() token by token, then the parser.  *)
(***************************************************************************)
Init ==
    /\ files = <<>>
    /\ capacity = 0
    /\ added = <<>>
    /\ out = NoCall
    /\ src \in Sources
    /\ ndebug \in BOOLEAN
    /\ rtl \in BOOLEAN
    /\ pc = "lex"
    /\ status = "ok"
    /\ pos = 0
    /\ tok_kind = <<>>
    /\ tok_start = <<>>
    /\ ldiags = <<>>
    /\ ast = NoAst

\* one iteration of the while loop of lex(): next_token() returns true and the token
\* is pushed, or next_token() does not return
NextToken ==
    /\ pc = "lex" /\ status = "ok"
    /\ \E t \in {next_token(src, pos, ndebug)} :
           /\ t.st # "ok" \/ t.kind # "EOF"
           /\ status' = t.st
           /\ pos' = t.pos
           /\ ldiags' = ldiags \o t.diags
           /\ tok_kind' = IF t.st = "ok" THEN Append(tok_kind, t.kind) ELSE tok_kind
           /\ tok_start' = IF t.st = "ok" THEN Append(tok_start, t.start) ELSE tok_start
    /\ UNCHANGED <<src, ndebug, rtl, pc, ast, files, capacity, added, out>>

\* next_token() returns false: lex() pushes the EOF token at src.length and returns
LexEof ==
    /\ pc = "lex" /\ status = "ok"
    /\ \E t \in {next_token(src, pos, ndebug)} :
           /\ t.st = "ok" /\ t.kind = "EOF"
           /\ pos' = t.pos
           /\ ldiags' = ldiags \o t.diags
    /\ tok_kind' = Append(tok_kind, "EOF")
    /\ tok_start' = Append(tok_start, Len(src))
    /\ pc' = "parse"
    /\ UNCHANGED <<src, ndebug, rtl, status, ast, files, capacity, added, out>>

\* the rest of parse(): the ROOT node and parse_decls()
Parse ==
    /\ pc = "parse" /\ status = "ok"
    /\ \E p \in {parse(tok_kind, tok_start, rtl)} :
           /\ status' = p.st
           /\ ast' = IF Ok(p) THEN Ast(p) ELSE NoAst
           /\ pc' = IF Ok(p) THEN "done" ELSE "parse"
    /\ UNCHANGED <<src, ndebug, rtl, pos, tok_kind, tok_start, ldiags, files, capacity, added, out>>

Next == NextToken \/ LexEof \/ Parse

Spec == Init /\ [][Next]_vars

(***************************************************************************)
(* The calls of vfs.c, from a caller that adds files and looks ids up.     *)
(***************************************************************************)
VfsInit ==
    /\ src = <<>>
    /\ ndebug = FALSE
    /\ rtl = FALSE
    /\ pc = "vfs"
    /\ status = "ok"
    /\ pos = 0
    /\ tok_kind = <<>>
    /\ tok_start = <<>>
    /\ ldiags = <<>>
    /\ ast = NoAst
    /\ files = <<>>
    /\ capacity = 0
    /\ added = <<>>
    /\ out = NoCall

\* add_file(path, content)
AddFile ==
    /\ pc = "vfs" /\ status = "ok"
    /\ Len(files) < MaxFiles
    /\ \E path \in Paths, content \in Contents :
           LET file_content == stringview(strf(content, Len(content)), Len(content))
               id == FileId(Len(files) + 1 - 1)
           IN  /\ files' = Append(files, File(strf(path, Len(path)), file_content))
               /\ capacity' = array_grow(Len(files), capacity)
               /\ added' = Append(added, [path |-> path, content |-> content, id |-> id])
               /\ out' = Call("add_file", id, id)
    /\ UNCHANGED <<src, ndebug, rtl, pc, status, pos, tok_kind, tok_start, ldiags, ast>>

\* files[file_id] as filepath and filecontent read it, after their test
\* file_id > array_length(files) has let file_id through: an element of the
\* array, or for file_id = array_length(files) a slot that was never written
SlotValues(file_id) ==
    IF file_id < Len(files) THEN {files[file_id + 1]}
    ELSE IF file_id < capacity THEN Indeterminate
    ELSE {}

\* filepath(file_id).  With file_id = array_length(files) the read is through a
\* null pointer while files is NULL, and past the allocation when the array is full
FilePath ==
    /\ pc = "vfs" /\ status = "ok"
    /\ \E file_id \in 0..(MaxFiles + 1) :
           IF file_id > Len(files)
           THEN out' = Call("filepath", file_id, NULL) /\ status' = "ok"
           ELSE IF SlotValues(file_id) = {}
           THEN out' = Call("filepath", file_id, NULL) /\ status' = "ub"
           ELSE /\ \E f \in SlotValues(file_id) : out' = Call("filepath", file_id, f.path)
                /\ status' = "ok"
    /\ UNCHANGED <<src, ndebug, rtl, pc, pos, tok_kind, tok_start, ldiags, ast,
                   files, capacity, added>>

\* filecontent(file_id)
FileContent ==
    /\ pc = "vfs" /\ status = "ok"
    /\ \E file_id \in 0..(MaxFiles + 1) :
           IF file_id > Len(files)
           THEN out' = Call("filecontent", file_id, stringview(<<>>, 0)) /\ status' = "ok"
           ELSE IF SlotValues(file_id) = {}
           THEN out' = Call("filecontent", file_id, stringview(<<>>, 0)) /\ status' = "ub"
           ELSE /\ \E f \in SlotValues(file_id) : out' = Call("filecontent", file_id, f.content)
                /\ status' = "ok"
    /\ UNCHANGED <<src, ndebug, rtl, pc, pos, tok_kind, tok_start, ldiags, ast,
                   files, capacity, added>>

\* vfs_cleanup(): every copy and the array are freed, files is NULL again
VfsCleanup ==
    /\ pc = "vfs" /\ status = "ok"
    /\ files # <<>>
    /\ files' = <<>>
    /\ capacity' = 0
    /\ added' = <<>>
    /\ out' = Call("vfs_cleanup", 0, NULL)
    /\ UNCHANGED <<src, ndebug, rtl, pc, status, pos, tok_kind, tok_start, ldiags, ast>>

VfsNext == AddFile \/ FilePath \/ FileContent \/ VfsCleanup

VfsSpec == VfsInit /\ [][VfsNext]_vars

(***************************************************************************)
(* The diagnostic engine (diagnostic.c): emit_diagnostic on a file of the  *)
(* vfs.  out keeps the span after its fix and the line and the column of   *)
(* the header.                                                             *)
(***************************************************************************)
MaxOffset == 7

\* the contents of the files diagnostics are emitted for
DiagContents == {<<"a", "b">>, <<"a", NL, "b", "c", NL>>, <<NL, "a", NL, NL, "b">>}

MIN(x, y) == IF x < y THEN x ELSE y
MAX(x, y) == IF x > y THEN x ELSE y

RECURSIVE line_start_from(_, _)
line_start_from(content, str) ==
    IF str > 0 /\ Ch(content, str) # NL THEN line_start_from(content, str - 1) ELSE str

start_of_line(content, at) == line_start_from(content, MIN(Len(content), at))

RECURSIVE line_end_from(_, _)
line_end_from(content, str) ==
    IF str < Len(content) /\ Ch(content, str) # NL THEN line_end_from(content, str + 1)
    ELSE IF Ch(content, str) = NL THEN str + 1 ELSE str

end_of_line(content, at) == line_end_from(content, MIN(Len(content), at))

get_line(content, at) ==
    1 + Cardinality({i \in 0..(MIN(Len(content), at) - 1) : Ch(content, i) = NL})

get_column(content, at) ==
    MIN(Len(content), at) - start_of_line(content, at) + 1

\* gather_lines: one line for every newline in [start_of_line(start), end_of_line(end))
gather_lines(content, start, end) ==
    LET from == start_of_line(content, start)
        to == end_of_line(content, end)
        newlines == {i \in from..(to - 1) : Ch(content, i) = NL}
    IN  Cardinality(newlines)

\* print_snippet reads lines[0]: through a null pointer when gather_lines pushed no line
print_snippet(content, start, end) ==
    IF gather_lines(content, start, end) = 0 THEN "ub" ELSE "ok"

\* emit_diagnostic after path and content were found: the fix of the span, the
\* header and the snippet
emit_diagnostic(content, start, end) ==
    LET fixed_start == MAX(start, 0)
        fixed_end == MIN(end, Len(content))
    IN  [start |-> fixed_start, end |-> fixed_end,
         line |-> get_line(content, fixed_start),
         column |-> get_column(content, fixed_start),
         st |-> print_snippet(content, fixed_start, fixed_end)]

NoHeader == [start |-> 0, end |-> 0, line |-> 0, column |-> 0, st |-> "ok"]

DiagInit ==
    /\ src = <<>>
    /\ ndebug = FALSE
    /\ rtl = FALSE
    /\ pc = "diag"
    /\ status = "ok"
    /\ pos = 0
    /\ tok_kind = <<>>
    /\ tok_start = <<>>
    /\ ldiags = <<>>
    /\ ast = NoAst
    /\ files = <<>>
    /\ capacity = 0
    /\ added = <<>>
    /\ out = NoCall

\* the driver adds the source file: add_file(path, content)
AddSource ==
    /\ pc = "diag" /\ status = "ok"
    /\ files = <<>>
    /\ \E path \in Paths, content \in DiagContents :
           LET file_content == stringview(strf(content, Len(content)), Len(content))
               id == FileId(Len(files) + 1 - 1)
           IN  /\ files' = Append(files, File(strf(path, Len(path)), file_content))
               /\ capacity' = array_grow(Len(files), capacity)
               /\ added' = Append(added, [path |-> path, content |-> content, id |-> id])
               /\ out' = Call("add_file", id, id)
    /\ UNCHANGED <<src, ndebug, rtl, pc, status, pos, tok_kind, tok_start, ldiags, ast>>

\* emit_diagnostic(diag) with diag.location = (file_id, start, end)
EmitDiagnostic ==
    /\ pc = "diag" /\ status = "ok"
    /\ \E file_id \in 0..1, start \in 0..MaxOffset, end \in 0..MaxOffset :
           IF file_id > Len(files)
           THEN out' = Call("emit_diagnostic", file_id, NoHeader) /\ status' = "panic"
           ELSE IF SlotValues(file_id) = {}
           THEN out' = Call("emit_diagnostic", file_id, NoHeader) /\ status' = "ub"
           ELSE \E f \in SlotValues(file_id) :
                  IF f.path = NULL
                  THEN out' = Call("emit_diagnostic", file_id, NoHeader) /\ status' = "panic"
                  ELSE \E e \in {emit_diagnostic(f.content.str, start, end)} :
                         /\ out' = Call("emit_diagnostic", file_id,
                                        [e EXCEPT !.st = <<start, end>>])
                         /\ status' = e.st
    /\ UNCHANGED <<src, ndebug, rtl, pc, pos, tok_kind, tok_start, ldiags, ast,
                   files, capacity, added>>

DiagNext == AddSource \/ EmitDiagnostic

DiagSpec == DiagInit /\ [][DiagNext]_vars

(***************************************************************************)
(* Properties                                                              *)
(***************************************************************************)
LexReturned == pc \in {"parse", "done"}
ParseReturned == pc = "done"

\* C1: no run of the lexer or the parser reaches todo(), panic() or a failing
\* assert: parse always returns an Ast
C1_NeverAborts == status \notin {"todo", "panic", "assert"}

\* C2: parse terminates on every token stream: no loop of the parser repeats an
\* iteration that consumes no token
C2_ParserTerminates == ~(pc = "parse" /\ status = "hang")

\* C3: for every source lex returns, and it returns kind[] and start[] of equal
\* length whose last element is EOF at |source|, with no EOF before it
C3_LexEndsWithEof ==
    /\ ~(pc = "lex" /\ status # "ok")
    /\ LexReturned =>
        /\ Len(tok_kind) = Len(tok_start)
        /\ Len(tok_kind) >= 1
        /\ tok_kind[Len(tok_kind)] = "EOF"
        /\ tok_start[Len(tok_start)] = Len(src)
        /\ \A i \in 1..(Len(tok_kind) - 1) : tok_kind[i] # "EOF"

\* C4: every operator and punctuation spelling, alone between spaces, lexes to
\* exactly one token, of its own kind
C4_OperatorsGreedy ==
    \A k \in OperatorKinds :
        (LexReturned /\ src = <<" ">> \o Spell(k) \o <<" ">>) => tok_kind = <<k, "EOF">>

\* reading the Ast that parse returned
node(i) == ast.nodes[i + 1]
IsNode(i) == i \in 0..(Len(ast.nodes) - 1)
first_decl == node(ast.decls[1])
token_index_of(i) == i - 1
Operand(i, token) == IsNode(i) /\ node(i).kind \in {"IDENTIFIER", "INT"} /\ node(i).token = token
Binary(i, token) == IsNode(i) /\ node(i).kind \notin {"IDENTIFIER", "INT"} /\ node(i).token = token

\* the initializer of the declaration name : T = initializer, when the tokens of the
\* source are those of such a declaration with an initializer of n tokens
InitializerOf(n) ==
    /\ ParseReturned
    /\ Len(tok_kind) = n + 5
    /\ SubSeq(tok_kind, 1, 4) = <<"IDENTIFIER", "COLON", "IDENTIFIER", "EQ">>
    /\ Len(ast.decls) = 1

\* the levels of the precedence table from `or` to `as`
Level ==
    [k \in {"OR", "PIPE_PIPE", "AND_AND", "EQ_EQ", "EXCLAMATION_EQ", "LT", "GT", "LT_EQ", "GT_EQ",
            "PLUS", "MINUS", "CARET", "PIPE", "STAR", "SLASH", "PERCENTAGE", "AND", "LT_LT",
            "GT_GT", "AS"} |->
        CASE k = "OR" -> 1
          [] k = "PIPE_PIPE" -> 2
          [] k = "AND_AND" -> 3
          [] k \in {"EQ_EQ", "EXCLAMATION_EQ", "LT", "GT", "LT_EQ", "GT_EQ"} -> 4
          [] k \in {"PLUS", "MINUS", "CARET", "PIPE"} -> 5
          [] k \in {"STAR", "SLASH", "PERCENTAGE", "AND", "LT_LT", "GT_GT"} -> 6
          [] k = "AS" -> 7]

\* the tokens are those of name : T = a op1 b op2 c, with op1 and op2 of the levels above
TwoOperators ==
    /\ InitializerOf(5)
    /\ tok_kind[6] \in DOMAIN Level /\ tok_kind[8] \in DOMAIN Level
    /\ \A i \in {5, 7, 9} : tok_kind[i] \in {"IDENTIFIER", "INT"}

\* (a op1 b) op2 c and a op1 (b op2 c), the operands at the tokens 4, 6, 8 and the
\* operators at the tokens 5 and 7
GroupsLeft(e) ==
    /\ Binary(e, 7) /\ Binary(node(e).a, 5) /\ Operand(node(e).b, 8)
    /\ Operand(node(node(e).a).a, 4) /\ Operand(node(node(e).a).b, 6)
GroupsRight(e) ==
    /\ Binary(e, 5) /\ Operand(node(e).a, 4) /\ Binary(node(e).b, 7)
    /\ Operand(node(node(e).b).a, 6) /\ Operand(node(node(e).b).b, 8)

\* the tokens are those of name : T = 2 * 1 - 2 * 3
MathExample ==
    /\ InitializerOf(7)
    /\ SubSeq(tok_kind, 5, 11) = <<"INT", "STAR", "INT", "MINUS", "INT", "STAR", "INT">>

C6_EveryOperatorBinds ==
    (/\ ParseReturned
     /\ Len(tok_kind) = 8
     /\ SubSeq(tok_kind, 1, 5) = <<"IDENTIFIER", "COLON", "IDENTIFIER", "EQ", "IDENTIFIER">>
     /\ tok_kind[6] \in DOMAIN Level \cup {"PIPE_GT"}
     /\ tok_kind[7] = "IDENTIFIER")
    => /\ Len(ast.decls) = 1
       /\ Binary(first_decl.b, 5)
       /\ tok_kind[6] = "PIPE_GT" => node(first_decl.b).kind = "PIPE_EXPR"
       /\ Operand(node(first_decl.b).a, 4)
       /\ Operand(node(first_decl.b).b, 6)

\* the tokens are those of name : T = keyword { children }, and they were parsed
\* as such: without a diagnostic
AggregateOf(keyword) ==
    /\ ParseReturned
    /\ Len(tok_kind) >= 8
    /\ SubSeq(tok_kind, 1, 6) = <<"IDENTIFIER", "COLON", "IDENTIFIER", "EQ", keyword, "LBRACE">>
    /\ Len(ast.decls) = 1
    /\ ast.diags = <<>>

\* the number of brackets open before token i, counted from the brace of the
\* aggregate
OpenBefore(i) ==
    Cardinality({j \in 6..(i - 1) : tok_kind[j] \in {"LBRACE", "LPAREN"}})
    - Cardinality({j \in 6..(i - 1) : tok_kind[j] \in {"RBRACE", "RPAREN"}})

\* the number of children written between the braces: the names that follow the
\* opening brace or a separator (a comma or a newline), those of a nested
\* aggregate left out
ChildrenWritten ==
    Cardinality({i \in 7..Len(tok_kind) :
                    /\ tok_kind[i] = "IDENTIFIER"
                    /\ tok_kind[i - 1] \in {"LBRACE", "COMMA", "NEWLINE"}
                    /\ OpenBefore(i) = 1})

AggregateShape(agg, n, two, many, child_kinds) ==
    /\ IsNode(agg)
    /\ n = 0 => node(agg).kind = two /\ node(agg).a = 0 /\ node(agg).b = 0
    /\ n \in {1, 2} => node(agg).kind = two
    /\ n >= 3 => node(agg).kind = many
    /\ n >= 1 => /\ node(agg).b - node(agg).a = n - 1
                 /\ \A j \in node(agg).a..node(agg).b : IsNode(j) /\ node(j).kind \in child_kinds

C8_EmptySource ==
    (ParseReturned /\ src = <<>>) =>
        /\ Len(ast.nodes) = 1
        /\ node(0).kind = "ROOT"
        /\ ast.decls = <<>>
        /\ ast.diags = <<>>
        /\ ldiags = <<>>

\* parse has returned for the empty source
C8_Witness == ParseReturned /\ src = <<>> /\ tok_kind = <<"EOF">> /\ Len(ast.nodes) = 1

\* the function literal of the FUNC node f: its "(" is the token of f, its ")" the
\* first one after it, its parameters the PARAM nodes named between the two
RParenOf(f) ==
    CHOOSE r \in DOMAIN tok_kind :
        /\ token_index_of(r) > node(f).token /\ tok_kind[r] = "RPAREN"
        /\ \A q \in DOMAIN tok_kind :
              (token_index_of(q) > node(f).token /\ tok_kind[q] = "RPAREN") => r <= q
ParamsOf(f) ==
    {j \in 0..(Len(ast.nodes) - 1) :
        /\ node(j).kind \in {"PARAM", "VARPARAM"}
        /\ node(node(j).token).token > node(f).token
        /\ node(node(j).token).token < token_index_of(RParenOf(f))}
Payload(proto, k) == get_extra(ast.extra, node(proto).a, k)

FunctionShape(f) ==
    LET proto == node(f).a
        body == node(f).b
        params == ParamsOf(f)
        n == Cardinality(params)
        after == RParenOf(f) + 1
    IN  /\ IsNode(proto) /\ IsNode(body)
        /\ n = 0 => node(proto).kind = "FUNC_PROTO_ONE" /\ Payload(proto, 1) = 0
        /\ n = 1 => node(proto).kind = "FUNC_PROTO_ONE" /\ Payload(proto, 1) \in params
        /\ n >= 2 => /\ node(proto).kind = "FUNC_PROTO"
                     /\ Payload(proto, 1)..Payload(proto, 2) = params
        \* no calling convention is written in these sources
        /\ Payload(proto, IF n >= 2 THEN 3 ELSE 2) = 0
        /\ tok_kind[after] # "ARROW" => node(proto).b = 0
        /\ tok_kind[after] = "LBRACE" => node(body).kind = "BLOCK" /\ node(body).a = 0 /\ node(body).b = 0

\* C9: every function literal with n parameters has a FUNC_PROTO_ONE prototype with
\* payload param 0 (n = 0) or the id of its PARAM node (n = 1), or a FUNC_PROTO
\* prototype whose payload range is its n PARAM nodes (n >= 2); an absent return type
\* and calling convention are 0 and a body of newlines only is a BLOCK with range (0, 0)
C9_FunctionPrototypes ==
    ParseReturned =>
        \A f \in 0..(Len(ast.nodes) - 1) : node(f).kind = "FUNC" => FunctionShape(f)

\* the tokens of [foreign] import M [list] [as A]; the list is absent (names = -1),
\* { ... } (names = 0) or { n1, ..., nk } (names = k)
ListTokens(names) ==
    IF names = -1 THEN <<>>
    ELSE IF names = 0 THEN <<"LBRACE", "ELLIPSIS", "RBRACE">>
    ELSE <<"LBRACE">> \o [i \in 1..(2 * names - 1) |-> IF i % 2 = 1 THEN "IDENTIFIER" ELSE "COMMA"]
         \o <<"RBRACE">>
ImportTokens(foreign, names, alias) ==
    (IF foreign THEN <<"FOREIGN">> ELSE <<>>) \o <<"IMPORT", "IDENTIFIER">> \o ListTokens(names)
    \o (IF alias THEN <<"AS", "IDENTIFIER">> ELSE <<>>) \o <<"EOF">>

ImportShape(foreign, names, alias) ==
    LET d == first_decl
        module == IF foreign THEN 2 ELSE 1
        list == d.b
    IN  /\ Len(ast.decls) = 1
        /\ d.kind = IF names = -1 THEN (IF foreign THEN "FOREIGN_IMPORT" ELSE "IMPORT")
                    ELSE (IF foreign THEN "FOREIGN_IMPORT_COMPLEX" ELSE "IMPORT_COMPLEX")
        /\ d.token = module
        /\ d.a = IF alias THEN token_index_of(Len(tok_kind) - 1) ELSE 0
        /\ names = 0 => IsNode(list) /\ node(list).kind = "ALL_SYMBOLS"
        /\ names >= 1 =>
            /\ IsNode(list) /\ node(list).kind = "RANGE"
            /\ node(list).b - node(list).a = names - 1
            /\ \A j \in 0..(names - 1) :
                  /\ IsNode(node(list).a + j)
                  /\ node(node(list).a + j).kind = "IDENTIFIER"
                  /\ node(node(list).a + j).token = module + 2 + 2 * j

\* C10: import M, import M { names } and import M { ... }, with or without as A and
\* with or without a leading foreign, give a node of the kind of the form, with the
\* token of M, the token of A (or 0) as lhs and, with a list, a RANGE over the
\* IDENTIFIER nodes of the names or an ALL_SYMBOLS node as rhs
C10_ImportShapes ==
    ParseReturned =>
        \A foreign \in BOOLEAN, names \in -1..MaxNames, alias \in BOOLEAN :
            tok_kind = ImportTokens(foreign, names, alias) => ImportShape(foreign, names, alias)

\* a foreign import of two names under an alias has been parsed
C10_Witness ==
    /\ ParseReturned
    /\ tok_kind = ImportTokens(TRUE, 2, TRUE)
    /\ first_decl.kind = "FOREIGN_IMPORT_COMPLEX"

\* the kind the keyword table gives a word: the keyword of that exact spelling, or
\* IDENTIFIER
KindOfWord(word) ==
    IF \E i \in 2..Len(KeywordOrder) : Spell(KeywordOrder[i]) = word
    THEN KeywordOrder[CHOOSE i \in 2..Len(KeywordOrder) : Spell(KeywordOrder[i]) = word]
    ELSE "IDENTIFIER"

\* C11: an identifier-shaped lexeme lexes to a keyword kind exactly when it is one
\* of the keyword spellings, and to IDENTIFIER otherwise, whatever its first byte
C11_KeywordLookup ==
    src \in WordSources =>
        /\ ~(pc = "lex" /\ status # "ok")
        /\ LexReturned => tok_kind = <<KindOfWord(src), "EOF">>

\* the node ids stored in a node: the two words of its data where the kind keeps
\* node ids there, and the node ids of the payload of a prototype
TwoChildKinds ==
    {"CONST", "VAR", "FIELD", "PARAM", "VARPARAM", "FUNC", "ARRAY_TYPE"}
    \cup {op_table(k).kind : k \in BinaryKinds}
OneChildKinds ==
    {"VARIANT_SIMPLE", "REF_TYPE", "REF_MUT_TYPE", "REF_OWN_TYPE", "MUT_REF"}
    \cup ({unary_table(k) : k \in TokenKinds} \ {"ROOT"})
RangeKinds ==
    {"BLOCK", "STRUCT_TWO", "STRUCT", "ENUM_TWO", "ENUM", "VARIANT_TWO", "VARIANT",
     "FOREIGN", "RANGE"}

ChildIds(i) ==
    LET n == node(i)
    IN  CASE n.kind \in TwoChildKinds \cup RangeKinds -> {n.a, n.b}
          [] n.kind \in OneChildKinds -> {n.a}
          [] n.kind \in {"IMPORT_COMPLEX", "FOREIGN_IMPORT_COMPLEX"} -> {n.b}
          [] n.kind = "FUNC_PROTO_ONE" -> {n.b, Payload(i, 1), Payload(i, 2)}
          [] n.kind = "FUNC_PROTO" -> {n.b, Payload(i, 1), Payload(i, 2), Payload(i, 3)}
          [] OTHER -> {}

\* C12: when parse returns, every node id stored in the data of a node or in an
\* extra payload is smaller than the number of nodes
C12_ChildIdsInRange ==
    ParseReturned =>
        \A i \in 0..(Len(ast.nodes) - 1) : \A c \in ChildIds(i) : c < Len(ast.nodes)

\* C13: every diagnostic the lexer pushed for a source is among the diagnostics of
\* the Ast that parse returns for it
C13_LexerDiagnosticsForwarded ==
    ParseReturned =>
        \A i \in 1..Len(ldiags) : \E j \in 1..Len(ast.diags) : ast.diags[j] = ldiags[i]

SpanInSource(d) == d.start <= d.end /\ d.end <= Len(src)

\* C14: every diagnostic of lex and of parse has a span with start <= end <= |source|
C14_SpansInSource ==
    /\ \A i \in 1..Len(ldiags) : SpanInSource(ldiags[i])
    /\ ParseReturned => \A i \in 1..Len(ast.diags) : SpanInSource(ast.diags[i])

\* C15: token_length of every token is the number of bytes the lexer consumed for
\* it: while lex runs, the scan position is the end of the token pushed last
C15_TokenLengthIsConsumed ==
    (pc = "lex" /\ status = "ok" /\ Len(tok_kind) >= 1) =>
        token_length(src, tok_kind[Len(tok_kind)], tok_start[Len(tok_start)], ndebug)
            = pos - tok_start[Len(tok_start)]

\* the token pushed last is a single-line string opened at `start` whose body runs
\* to the end of the source without a closing quote or a newline
UnterminatedStringAt(start) ==
    /\ pc = "lex" /\ status = "ok" /\ Len(tok_kind) >= 1
    /\ tok_kind[Len(tok_kind)] = "STRING" /\ tok_start[Len(tok_start)] = start
    /\ pos = Len(src)
    /\ \A i \in (start + 2)..Len(src) : src[i] \notin {DQUOTE, NL}

UnterminatedStringDiags(start) ==
    {i \in 1..Len(ldiags) :
        ldiags[i].message = "unterminated string" /\ ldiags[i].start = start}

\* C16: a single-line string that reaches the end of input unclosed gets exactly
\* one `unterminated string` diagnostic, whatever the length of its body
C16_UnterminatedString ==
    \A start \in 0..Len(src) :
        UnterminatedStringAt(start) => Cardinality(UnterminatedStringDiags(start)) = 1

\* the tokens of name : T = enum { b sep c }
SeparatorTokens ==
    {<<"IDENTIFIER", "COLON", "IDENTIFIER", "EQ", "ENUM", "LBRACE", "IDENTIFIER">> \o sep
     \o <<"IDENTIFIER", "RBRACE", "EOF">> :
        sep \in {<<"COMMA">>, <<"NEWLINE">>, <<"COMMA", "NEWLINE">>,
                 <<"COMMA", "NEWLINE", "NEWLINE">>}}

\* C17: between two enum variants a comma alone, a newline alone and a comma
\* followed by newlines are all accepted: parse returns an enum node over the two
\* variants and no diagnostic
C17_VariantSeparators ==
    (LexReturned /\ tok_kind \in SeparatorTokens) =>
        /\ ~(pc = "parse" /\ status # "ok")
        /\ ParseReturned =>
            /\ Len(ast.decls) = 1
            /\ AggregateShape(first_decl.b, 2, "ENUM_TWO", "ENUM", {"VARIANT_SIMPLE"})
            /\ ast.diags = <<>>

\* the tokens are those of name : T = struct { F trail }, where trail is one comma
\* with newlines around it; LastOfFields is the last token before trail
LastOfFields ==
    CHOOSE k \in 1..Len(tok_kind) :
        /\ tok_kind[k] \notin {"COMMA", "NEWLINE"}
        /\ \A j \in (k + 1)..(Len(tok_kind) - 2) : tok_kind[j] \in {"COMMA", "NEWLINE"}
        /\ k <= Len(tok_kind) - 2
TrailingCommaStruct ==
    /\ LexReturned
    /\ Len(tok_kind) >= 9
    /\ SubSeq(tok_kind, 1, 6) = <<"IDENTIFIER", "COLON", "IDENTIFIER", "EQ", "STRUCT", "LBRACE">>
    /\ SubSeq(tok_kind, Len(tok_kind) - 1, Len(tok_kind)) = <<"RBRACE", "EOF">>
    /\ Cardinality({j \in (LastOfFields + 1)..(Len(tok_kind) - 2) : tok_kind[j] = "COMMA"}) = 1

\* the tokens of the same struct without the trailing comma and its newlines
WithoutTrail(tokens) ==
    SubSeq(tokens, 1, LastOfFields) \o SubSeq(tokens, Len(tokens) - 1, Len(tokens))

\* the two parses agree: the same nodes (kinds, tokens, children), the same decls
\* and no diagnostics
SameAsWithoutTrail ==
    LET plain == parse(WithoutTrail(tok_kind), WithoutTrail(tok_start), rtl)
    IN  /\ ~(pc = "parse" /\ status # "ok")
        /\ ParseReturned =>
            /\ Ok(plain)
            /\ ast.nodes = plain.nodes
            /\ ast.decls = plain.decls
            /\ ast.diags = <<>> /\ plain.diags = <<>>

\* C18 as stated, the empty field list included: struct { F } and struct { F, }
\* parse to the same nodes and no diagnostics for every field list F
C18_TrailingCommaAnyList == TrailingCommaStruct => SameAsWithoutTrail

\* C18: for every field list F of one field or more, struct { F } and struct { F, }
\* (with or without newlines around the trailing comma) parse to the same node
\* kinds, the same parent/child structure and the same, empty, diagnostics
C18_TrailingComma ==
    (TrailingCommaStruct /\ tok_kind[LastOfFields] # "LBRACE") => SameAsWithoutTrail

\* a struct of two fields with newlines around its trailing comma has been parsed
C18_Witness ==
    /\ TrailingCommaStruct /\ ParseReturned
    /\ tok_kind[LastOfFields + 1] = "NEWLINE" /\ tok_kind[LastOfFields + 2] = "COMMA"
    /\ tok_kind[LastOfFields + 3] = "NEWLINE"
    /\ node(first_decl.b).kind = "STRUCT_TWO"
    /\ node(first_decl.b).b - node(first_decl.b).a = 1

\* C19: since the last cleanup the k-th add_file returned k - 1; filepath and
\* filecontent of an id returned so far give the path and the content handed to
\* that call; for every other id, the number of files added included, they return
\* NULL and the empty view
C19_VfsLookup ==
    pc = "vfs" =>
        /\ status = "ok"
        /\ \A k \in 1..Len(added) : added[k].id = k - 1
        /\ out.op = "filepath" =>
              IF out.id < Len(added) THEN out.value = added[out.id + 1].path
              ELSE out.value = NULL
        /\ out.op = "filecontent" =>
              IF out.id < Len(added)
              THEN out.value = stringview(added[out.id + 1].content,
                                          Len(added[out.id + 1].content))
              ELSE out.value = stringview(<<>>, 0)

\* the kinds of the nodes of a function literal, and the kind of a reserved node
\* that was never set
FunctionKinds == {"FUNC", "FUNC_PROTO", "FUNC_PROTO_ONE", "PARAM", "VARPARAM", "INVALID"}

\* C20: for ( a ) and ( a o b ) in expression position the attempt to parse a
\* function literal is rolled back without a panic, and parse returns the nodes of
\* the parenthesized expression only, no FUNC node, and no diagnostic
C20_ParenRollback ==
    (src \in ParenSources /\ LexReturned) =>
        /\ status = "ok"
        /\ ParseReturned =>
              /\ ast.diags = <<>>
              /\ \A i \in 0..(Len(ast.nodes) - 1) : node(i).kind \notin FunctionKinds
              /\ Len(ast.decls) = 1
              /\ IF Len(tok_kind) = 8
                 THEN Operand(first_decl.b, 5)
                 ELSE /\ Binary(first_decl.b, 6)
                      /\ Operand(node(first_decl.b).a, 5)
                      /\ Operand(node(first_decl.b).b, 7)

\* C21: when parse returns, no node of the node array is of kind INVALID: every
\* reserved node was set or popped, also where a production reported and returned
\* early
C21_NoReservedNodeLeft ==
    ParseReturned => \A i \in 0..(Len(ast.nodes) - 1) : node(i).kind # "INVALID"

\* the brackets of the tokens: the balance of tok_kind[lo .. hi], the bracket that
\* closes the one at o, and the names written directly between the two: after the
\* opening bracket, a comma or a newline, and inside no other bracket
Openers == {"LBRACE", "LPAREN"}
Closers == {"RBRACE", "RPAREN"}
Balance(lo, hi) ==
    Cardinality({i \in lo..hi : tok_kind[i] \in Openers})
    - Cardinality({i \in lo..hi : tok_kind[i] \in Closers})
CloserOf(o) ==
    CHOOSE c \in (o + 1)..Len(tok_kind) :
        /\ tok_kind[c] \in Closers /\ Balance(o + 1, c - 1) = 0
        /\ \A q \in (o + 1)..(c - 1) : ~(tok_kind[q] \in Closers /\ Balance(o + 1, q - 1) = 0)
DirectNames(o) ==
    {i \in (o + 1)..(CloserOf(o) - 1) :
        /\ tok_kind[i] = "IDENTIFIER"
        /\ tok_kind[i - 1] \in Openers \cup {"COMMA", "NEWLINE"}
        /\ Balance(o + 1, i - 1) = 0}

\* the kinds of the node of the construct that the bracket at o opens, none when
\* the bracket opens no list of children
ConstructKinds(o) ==
    IF o = 1 THEN {}
    ELSE IF tok_kind[o] = "LBRACE" /\ tok_kind[o - 1] = "STRUCT" THEN {"STRUCT_TWO", "STRUCT"}
    ELSE IF tok_kind[o] = "LBRACE" /\ tok_kind[o - 1] = "ENUM" THEN {"ENUM_TWO", "ENUM"}
    ELSE IF tok_kind[o] = "LPAREN" /\ tok_kind[o - 1] = "IDENTIFIER" THEN {"VARIANT_TWO", "VARIANT"}
    ELSE IF tok_kind[o] = "LPAREN" /\ tok_kind[o - 1] = "EQ" THEN {"FUNC_PROTO_ONE", "FUNC_PROTO"}
    ELSE {}

\* the kinds of the children of a construct
ChildKinds(kind) ==
    IF kind \in {"STRUCT_TWO", "STRUCT", "VARIANT_TWO", "VARIANT"} THEN {"FIELD"}
    ELSE IF kind \in {"ENUM_TWO", "ENUM"} THEN {"VARIANT_SIMPLE", "VARIANT_TWO", "VARIANT"}
    ELSE {"PARAM", "VARPARAM"}

\* the range (start, end) stored for the construct g: in its data, or in the payload
\* of a prototype; (0, 0) stands for no children
StoredRange(g) ==
    IF node(g).kind = "FUNC_PROTO" THEN <<Payload(g, 1), Payload(g, 2)>>
    ELSE IF node(g).kind = "FUNC_PROTO_ONE" THEN <<Payload(g, 1), Payload(g, 1)>>
    ELSE <<node(g).a, node(g).b>>

\* the position in tok_kind of the name of the child j
NamePosition(j) == node(node(j).token).token + 1

\* the stored range of g is a run of children of g
RunOfChildren(g) ==
    LET r == StoredRange(g)
    IN  (r # <<0, 0>> /\ r[1] <= r[2]) =>
            \A j \in r[1]..r[2] :
                IsNode(j) /\ node(j).kind \in ChildKinds(node(g).kind) /\ IsNode(node(j).token)

\* the stored range of g is, in source order, the children written directly inside
\* the bracket at o
RunOfBracket(g, o) ==
    LET r == StoredRange(g)
    IN  /\ node(g).kind \in ConstructKinds(o)
        /\ r # <<0, 0>> /\ r[1] <= r[2]
        /\ RunOfChildren(g)
        /\ r[2] - r[1] + 1 = Cardinality(DirectNames(o))
        /\ {NamePosition(j) : j \in r[1]..r[2]} = DirectNames(o)
        /\ \A j, k \in r[1]..r[2] : j < k => NamePosition(j) < NamePosition(k)

ConstructNodes ==
    {g \in 0..(Len(ast.nodes) - 1) :
        node(g).kind \in {"STRUCT_TWO", "STRUCT", "ENUM_TWO", "ENUM", "VARIANT_TWO", "VARIANT",
                          "FUNC_PROTO_ONE", "FUNC_PROTO"}}

\* C22: when parse returns, the range stored for every struct, enum, variant
\* payload and parameter list holds children of that construct only; for a source
\* parsed without a diagnostic it is, in source order, exactly the children written
\* directly inside the brackets of the construct, nested constructs included; and
\* the scratch stack is as it was at entry: empty, with scratch_top 0
C22_ScratchRuns ==
    ParseReturned =>
        /\ ast.scratch = <<>> /\ ast.scratch_top = 0
        /\ \A g \in ConstructNodes : RunOfChildren(g)
        /\ ast.diags = <<>> =>
              \A o \in 2..Len(tok_kind) :
                  (ConstructKinds(o) # {} /\ DirectNames(o) # {}) =>
                      \E g \in ConstructNodes : RunOfBracket(g, o)

\* the FOREIGN nodes of the Ast, and the number of top-level declarations written
\* after the foreign block of the source
ForeignNodes == {g \in 0..(Len(ast.nodes) - 1) : node(g).kind = "FOREIGN"}
DeclsAfterBlock == IF tok_kind[Len(tok_kind) - 2] = "IMPORT" THEN 1 ELSE 0

\* C23: foreign { D1 ... Dn } with well-formed declarations is parsed without a
\* diagnostic into one FOREIGN node, a top-level declaration whose block range is
\* the nodes of D1 .. Dn, and the declarations after the closing brace are further
\* top-level declarations
C23_ForeignBlock ==
    (src \in ForeignBlockSources /\ LexReturned) =>
        /\ status = "ok"
        /\ ParseReturned =>
              /\ ast.diags = <<>>
              /\ Cardinality(ForeignNodes) = 1
              /\ \A g \in ForeignNodes :
                    /\ ast.decls[1] = g
                    /\ node(g).a = g + 1 /\ node(g).b >= node(g).a /\ IsNode(node(g).b)
                    /\ Len(ast.decls) = 1 + DeclsAfterBlock
                    /\ DeclsAfterBlock = 1 =>
                          /\ ast.decls[2] = node(g).b + 1
                          /\ node(ast.decls[2]).kind = "IMPORT"
                    /\ DeclsAfterBlock = 0 => node(g).b = Len(ast.nodes) - 1

\* the last declaration of decls is the well-formed declaration the source ends with
LastDeclParsed ==
    /\ Len(ast.decls) >= 1
    /\ LET d == ast.decls[Len(ast.decls)]
       IN  /\ IsNode(d)
           /\ tok_kind[Len(tok_kind) - 2] = "IMPORT" =>
                 /\ node(d).kind \in {"IMPORT", "FOREIGN_IMPORT"}
                 /\ node(d).token = Len(tok_kind) - 2
           /\ tok_kind[Len(tok_kind) - 2] # "IMPORT" =>
                 /\ node(d).kind = "VAR"
                 /\ Operand(node(d).b, Len(tok_kind) - 2)

\* C24: after a top-level declaration that fails, the parser skips to the next
\* declaration starter, the well-formed declaration that begins there is parsed and
\* its node id is appended to decls, and the failure added a diagnostic
C24_Recovery ==
    (src \in RecoverySources /\ LexReturned) =>
        /\ status = "ok"
        /\ ParseReturned => (LastDeclParsed /\ Len(ast.diags) >= 1)

\* the position of the newline of the tokens, and the tokens without it
NewlineAt == CHOOSE k \in 1..Len(tok_kind) : tok_kind[k] = "NEWLINE"
WithoutNewline(tokens) == SubSeq(tokens, 1, NewlineAt - 1) \o SubSeq(tokens, NewlineAt + 1, Len(tokens))

\* the kinds, the children and the order of the nodes, and the messages of the
\* diagnostics: what does not move when a token is taken out
Structure(nodes) == [i \in 1..Len(nodes) |-> <<nodes[i].kind, nodes[i].a, nodes[i].b>>]
Messages(diags) == [i \in 1..Len(diags) |-> diags[i].message]

\* the parse of the tokens agrees with the parse of the tokens without the newline
SameAsWithoutNewline ==
    LET plain == parse(WithoutNewline(tok_kind), WithoutNewline(tok_start), rtl)
    IN  /\ ~(pc = "parse" /\ status # "ok")
        /\ ParseReturned =>
            /\ Ok(plain)
            /\ Structure(ast.nodes) = Structure(plain.nodes)
            /\ ast.decls = plain.decls
            /\ Messages(ast.diags) = Messages(plain.diags)

\* C25: a newline directly after a binary operator, directly after a comma of a
\* parameter or field list, or inside ( ) or [ ] is skipped: the nodes and the
\* diagnostics are those of the same tokens without the newline
C25_NewlinesTransparent ==
    (src \in NewlineSources /\ LexReturned) => SameAsWithoutNewline

\* the escape of a source that is one literal holding one escape
EscapeOf(s) == SubSeq(s, 3, Len(s) - 1)

\* C26: a literal with one escape is lexed without a failing assert and with the
\* scan position increasing; a supported escape is consumed inside the literal with
\* no diagnostic, and an invalid one gives exactly one `invalid escape` diagnostic
C26_Escapes ==
    src \in EscapeSources =>
        /\ pc = "lex" => status = "ok"
        /\ LexReturned =>
              /\ tok_kind = <<(IF src[1] = QUOTE THEN "CHAR" ELSE "STRING"), "EOF">>
              /\ tok_start = <<0, Len(src)>>
              /\ Messages(ldiags) = IF EscapeOf(src) \in SupportedEscapes THEN <<>>
                                    ELSE <<"invalid escape">>

\* a diagnostic was emitted for a file of the vfs: its content, the span handed
\* to emit_diagnostic and the span, the line and the column it went on with
Emitted == pc = "diag" /\ out.op = "emit_diagnostic" /\ out.id < Len(files)
EmittedContent == files[out.id + 1].content.str
IncomingSpan == out.value.st

\* C27: before rendering, the span is such that 0 <= start <= |content| and
\* start <= end <= |content|, whatever the incoming span
C27_SpanNormalized ==
    Emitted =>
        /\ 0 <= out.value.start /\ out.value.start <= Len(EmittedContent)
        /\ out.value.start <= out.value.end /\ out.value.end <= Len(EmittedContent)

\* the first byte of the line of the byte at offset p
FirstByteOfLine(content, p) ==
    CHOOSE f \in 0..p :
        /\ f = 0 \/ Ch(content, f - 1) = NL
        /\ \A i \in f..(p - 1) : Ch(content, i) # NL

\* C28: for a span that starts at the byte offset p of the content, the header
\* gives line = 1 + the newlines before p and column = 1 + the bytes between the
\* first byte of that line and p
C28_HeaderOneBased ==
    (Emitted /\ IncomingSpan[1] <= Len(EmittedContent)) =>
        LET p == IncomingSpan[1]
        IN  /\ out.value.line
                 = 1 + Cardinality({i \in 0..(p - 1) : Ch(EmittedContent, i) = NL})
            /\ out.value.column = 1 + (p - FirstByteOfLine(EmittedContent, p))

\* C29: during lex the scan position stays within 0 .. |source|: no byte past the
\* terminating NUL is read, also when the source ends inside a line comment, in a
\* quote or in a UTF-8 lead byte
C29_ScanInBounds == 0 <= pos /\ pos <= Len(src)

\* the parser as parse() leaves it on the tokens of the source, also where it
\* does not return
Parsed == parse(tok_kind, tok_start, rtl)

ParseActed == ParseReturned \/ (pc = "parse" /\ status # "ok")

\* the token indices the nodes of the parser hold, those of the kinds that
\* name a token
NodeTokens ==
    {Parsed.nodes[i].token : i \in {j \in 1..Len(Parsed.nodes) : Parsed.nodes[j].kind # "INVALID"}}

\* C30: during parse the token cursor never passes the index of the final EOF
\* token and every token index stored in a node lies inside the token arrays,
\* also for `import` and `import m as` directly before EOF and for an
\* identifier that is the first token of the file
C30_TokenCursorInBounds ==
    ParseActed =>
        /\ index(Parsed) <= Len(tok_kind) - 1
        /\ NodeTokens \subseteq 0..(Len(tok_kind) - 1)
====
